---- MODULE Spec2Model ----
(***************************************************************************)
(* Trading loop of crypto_trading_system: the portfolio accountant         *)
(* (risk/portfolio_manager.py), the risk gate (risk/risk_manager.py), the  *)
(* order router (execution/order_manager.py), the execution loop           *)
(* (execution/execution_engine.py), the strategies (strategies/), the      *)
(* backtest harness (backtesting/backtest_engine.py) and the exchange      *)
(* service with the stream task (exchanges/binance_service.py,             *)
(* data/websocket_client.py, data/data_manager.py).                        *)
(*                                                                         *)
(* Python floats are modelled as exact rationals <<numerator, denominator>>*)
(* in lowest terms with a positive denominator; quantities are integers    *)
(* (multiples of one lot).  Rounding of IEEE doubles is not modelled.      *)
(***************************************************************************)
EXTENDS Integers, Sequences, FiniteSets, TLC

----------------------------------------------------------------------------
(* Bounds of the model *)

\* number of non-zero fills booked in one session of calls
MaxFills == 4
\* number of ticks the stream delivers in one session of the engine
MaxTicks == 2

Symbols == {"BTCUSDT", "ETHUSDT"}

----------------------------------------------------------------------------
(* Exact arithmetic standing for Python float arithmetic *)

Abs(x) == IF x < 0 THEN -x ELSE x

RECURSIVE GCD(_, _)
GCD(a, b) == IF b = 0 THEN a ELSE GCD(b, a % b)

\* the rational n/d (d # 0) in lowest terms
Rat(n, d) ==
    LET s == IF d < 0 THEN -1 ELSE 1
        g == GCD(Abs(n), Abs(d))
    IN  <<(s * n) \div g, (s * d) \div g>>

Q(i) == <<i, 1>>

RAdd(a, b) == Rat(a[1] * b[2] + b[1] * a[2], a[2] * b[2])
RSub(a, b) == Rat(a[1] * b[2] - b[1] * a[2], a[2] * b[2])
RMul(a, b) == Rat(a[1] * b[1], a[2] * b[2])
\* a / b for b # 0
RDiv(a, b) == Rat(a[1] * b[2], a[2] * b[1])
RLt(a, b)  == a[1] * b[2] < b[1] * a[2]
RLe(a, b)  == a[1] * b[2] <= b[1] * a[2]
RAbs(a)    == <<Abs(a[1]), a[2]>>

----------------------------------------------------------------------------
VARIABLES
    cash,            \* PortfolioSnapshot.cash
    positions,       \* PortfolioSnapshot.positions: symbol -> Position
    run,             \* history: per symbol, the fills since quantity was last 0
    starting_equity, \* RiskManager._starting_equity (the DayAnchor), or None
    limits,          \* RiskManager.limits
    backend,         \* the router wired into the engine (self._orders)
    id_counter,      \* OrderManager._id_counter
    marks,           \* ExecutionEngine._marks: symbol -> latest price
    strategies,      \* ExecutionEngine._strategies, in registration order
    is_running,      \* BaseStrategy._is_running of each strategy
    phase,           \* the engine: "new", "anchored", "started", "subscribed"
                     \* (inside start), "running" (the stream task lives),
                     \* "crashed" (the stream task died of an exception),
                     \* "cancelled" (inside stop, the task cancelled),
                     \* "stopped" or "stop_raised" (stop returned or raised)
    pc,              \* where the tick handler stands: "idle", "gather",
                     \* "signals" or "submit"
    tick,            \* _handle_tick: its locals symbol, price and equity
    done,            \* the on_data calls of the tick that completed, in
                     \* the order they completed
    on_error_calls,  \* history: on_error calls per strategy in this tick
    signals,         \* _handle_tick: the signals not yet looped over
    request,         \* the OrderRequest handed to the router, not yet answered
    ticks,           \* history: how many ticks were handled
    exec,            \* history: the last fill the engine booked
    fills,           \* history: how many non-zero fills were booked
    last,            \* history: the last call made and what it returned
    close_called,    \* the router's close() has been called
    malformed,       \* history: the stream got a message without a required
                     \* field
    lock,            \* OrderManager._lock: the submit call holding it, or ""
    calls,           \* concurrent submit calls: where each stands, its order id
    acquired,        \* history: the calls in the order they acquired the lock
    strategy,        \* a strategy object on its own: parameters, _is_running,
                     \* _prices, _anchors
    strategy_call,   \* the last call made on it, and what it returned
    lifecycle,       \* history: the last of on_start / on_stop called on it
    seen,            \* history: per symbol, the prices generate_signals got
    bt,              \* BacktestEngine.run: where it stands, its symbol, the
                     \* number of candles taken
    candles,         \* what fetch_candles returned, with what the strategy
                     \* answers to each candle
    equity_curve,    \* run's local equity_curve
    executed,        \* run's local executed
    bt_orders,       \* history: the requests run submitted, in order, and
                     \* the portfolio after each
    bt_trace,        \* history: the portfolio after each candle of run
    service,         \* the BinanceService and who was handed it: _client,
                     \* _socket_manager, and the task holding _lock, or ""
    tasks,           \* the caller of the engine and the stream task: the
                     \* await each is suspended in, inside which method,
                     \* called from where
    stream_task,     \* DataManager._stream_task: cancel() was called on it,
                     \* and how it ended, if it did
    registered,      \* the strategies registered when stop() is called
    on_stop_calls    \* history: the strategies stop() called on_stop on

pvars == <<cash, positions, run>>
rvars == <<starting_equity, limits>>
evars == <<backend, id_counter, marks, strategies, is_running, phase, pc, tick,
           done, on_error_calls, signals, request, ticks, exec>>
\* what no step of the engine, of the portfolio calls or of the risk calls
\* changes
svars == <<lock, calls, acquired>>
tvars == <<strategy, strategy_call, lifecycle, seen>>
bvars == <<bt, candles, equity_curve, executed, bt_orders, bt_trace>>
xvars == <<service, tasks, stream_task, registered, on_stop_calls>>
ovars == <<close_called, malformed, svars, tvars, bvars, xvars>>
vars  == <<cash, positions, run, starting_equity, limits, backend, id_counter,
           marks, strategies, is_running, phase, pc, tick, done, on_error_calls,
           signals, request, ticks, exec, fills, last, close_called, malformed, lock,
           calls, acquired, strategy, strategy_call, lifecycle, seen, bt, candles,
           equity_curve, executed, bt_orders, bt_trace, service, tasks,
           stream_task, registered, on_stop_calls>>

----------------------------------------------------------------------------
(* Portfolio accountant: risk/portfolio_manager.py *)

\* Position(symbol): quantity 0.0, average_price 0.0
Position(symbol) == [quantity |-> 0, average_price |-> Q(0)]

\* Position.market_value
market_value(position, mark_price) == RMul(Q(position.quantity), mark_price)

\* marks.get with a slip: a missing mark reads as 0, not as the default
MarkOr_NoFallback(mark_map, symbol, default) ==
    IF symbol \in DOMAIN mark_map THEN mark_map[symbol] ELSE Q(0)

\* marks.get(symbol, default)
MarkOr(mark_map, symbol, default) ==
    IF symbol \in DOMAIN mark_map THEN mark_map[symbol] ELSE default

\* PortfolioSnapshot.equity: the loop over positions.items()
RECURSIVE EquityFrom(_, _, _, _)
EquityFrom(value, todo, pos, mark_map) ==
    IF todo = {} THEN value
    ELSE LET symbol == CHOOSE s \in todo : TRUE
             mark_price == MarkOr(mark_map, symbol, pos[symbol].average_price)
         IN  EquityFrom(RAdd(value, market_value(pos[symbol], mark_price)),
                        todo \ {symbol}, pos, mark_map)

equity(mark_map) == EquityFrom(cash, DOMAIN positions, positions, mark_map)

\* PortfolioManager.mark_to_market
mark_to_market(mark_map) == equity(mark_map)

\* update_cash with a slip: the delta is dropped
update_cash_Skip(delta) == cash' = cash

\* PortfolioManager.update_cash
update_cash(delta) == cash' = RAdd(cash, delta)

\* positions.setdefault(symbol, Position(symbol)), as the mapping it leaves
SetDefault(pos, symbol) ==
    IF symbol \in DOMAIN pos THEN pos ELSE pos @@ (symbol :> Position(symbol))

\* the exact close with a slip: the average price is left behind
ClosedPosition_KeepsAverage(position) == [position EXCEPT !.quantity = 0]

\* new_quantity == 0: quantity and average_price both go to 0.0
ClosedPosition(position) == [quantity |-> 0, average_price |-> Q(0)]

\* the weighted price with a slip: the plain mean of the two prices
weighted_price_PlainMean(position, fill_quantity, fill_price) ==
    RDiv(RAdd(position.average_price, fill_price), Q(2))

\* same-direction fill: the mean of the prior average and the fill price,
\* weighted by |current_qty| and |fill_quantity|
weighted_price(position, fill_quantity, fill_price) ==
    LET current_qty == position.quantity
        total_size  == Abs(current_qty) + Abs(fill_quantity)
    IN  RDiv(RAdd(RMul(position.average_price, Q(Abs(current_qty))),
                  RMul(fill_price, Q(Abs(fill_quantity)))),
             Q(total_size))

\* the partial close with a slip: the rest is re-priced at the fill price
ReducedPosition_Reprices(position, new_quantity, fill_price) ==
    [quantity |-> new_quantity, average_price |-> fill_price]

\* opposite fill smaller than the position: average price unchanged
ReducedPosition(position, new_quantity, fill_price) ==
    [position EXCEPT !.quantity = new_quantity]

\* the flip with a slip: the average price of the closed side is kept
FlippedPosition_KeepsAverage(position, new_quantity, fill_price) ==
    [position EXCEPT !.quantity = new_quantity]

\* position flipped direction: the remainder is carried at the fill price
FlippedPosition(position, new_quantity, fill_price) ==
    [quantity |-> new_quantity, average_price |-> fill_price]

\* update_position after the zero-fill return: the branches on new_quantity,
\* current_qty and the direction of the fill
FillPosition(position, fill_quantity, fill_price) ==
    LET current_qty  == position.quantity
        new_quantity == current_qty + fill_quantity
    IN  IF new_quantity = 0
        THEN ClosedPosition(position)
        ELSE IF current_qty = 0
        THEN [quantity |-> new_quantity, average_price |-> fill_price]
        ELSE IF current_qty * fill_quantity > 0
        THEN [quantity |-> new_quantity,
              average_price |-> weighted_price(position, fill_quantity, fill_price)]
        ELSE IF Abs(fill_quantity) < Abs(current_qty)
        THEN ReducedPosition(position, new_quantity, fill_price)
        ELSE FlippedPosition(position, new_quantity, fill_price)

\* the positions mapping update_position leaves
PositionsAfter(pos, symbol, fill_quantity, fill_price) ==
    LET held == SetDefault(pos, symbol)
    IN  IF fill_quantity = 0
        THEN held
        ELSE [held EXCEPT ![symbol] = FillPosition(held[symbol], fill_quantity, fill_price)]

\* history of the fills of one symbol since its quantity was last 0, kept
\* while they all have one sign (pure): n fills, their sum and their
\* |q|-weighted price sum; a fill of the other sign ends the history
NoRun    == [n |-> 0, pure |-> TRUE, sum_q |-> 0, sum_abs |-> 0, sum_qp |-> Q(0)]
MixedRun == [NoRun EXCEPT !.pure = FALSE]

RunAfter(r, new_quantity, fill_quantity, fill_price) ==
    IF fill_quantity = 0 THEN r
    ELSE IF new_quantity = 0 THEN NoRun
    ELSE IF ~r.pure \/ r.sum_q * fill_quantity < 0 THEN MixedRun
    ELSE [n       |-> r.n + 1,
          pure    |-> TRUE,
          sum_q   |-> r.sum_q + fill_quantity,
          sum_abs |-> r.sum_abs + Abs(fill_quantity),
          sum_qp  |-> RAdd(r.sum_qp, RMul(Q(Abs(fill_quantity)), fill_price))]

\* PortfolioManager.update_position
update_position(symbol, fill_quantity, fill_price) ==
    /\ positions' = PositionsAfter(positions, symbol, fill_quantity, fill_price)
    /\ run' = [run EXCEPT ![symbol] =
                  RunAfter(@, positions'[symbol].quantity, fill_quantity, fill_price)]

----------------------------------------------------------------------------
(* Risk gate: risk/risk_manager.py *)

\* an Optional[float]: None, or a value
None    == [set |-> FALSE, v |-> Q(0)]
Some(x) == [set |-> TRUE, v |-> x]

\* RiskLimits(): the defaults of the dataclass
DefaultLimits ==
    [max_position_pct |-> Rat(5, 100), max_daily_loss_pct |-> Rat(2, 100),
     max_positions |-> 10]

\* what validate_signal does: it returns (allowed, reason), or it raises
Verdict(allowed, reason) == [allowed |-> allowed, reason |-> reason, raised |-> FALSE]
Raised(error) == [allowed |-> FALSE, reason |-> error, raised |-> TRUE]

\* RiskManager.reset_day
reset_day(equity_at_start) == starting_equity' = Some(equity_at_start)

\* the drawdown test with a slip: the loss is never found to exceed the limit
daily_loss_breached_Never(equity_now, anchor) == FALSE

\* drawdown = 1 - equity / _starting_equity; drawdown > max_daily_loss_pct
\* (the anchor is not 0)
daily_loss_breached(equity_now, anchor) ==
    LET drawdown == RSub(Q(1), RDiv(equity_now, anchor))
    IN  RLt(limits.max_daily_loss_pct, drawdown)

\* validate_signal with a slip: the daily-loss check comes before the
\* position-size check
validate_signal_LossFirst(signal, mark_map, equity_now) ==
    IF signal.symbol \notin DOMAIN mark_map
    THEN Verdict(FALSE, "Missing mark price")
    ELSE IF starting_equity.set /\ starting_equity.v # Q(0)
              /\ daily_loss_breached(equity_now, starting_equity.v)
    THEN Verdict(FALSE, "Daily loss limit breached")
    ELSE IF RLt(RMul(equity_now, limits.max_position_pct),
                RMul(Q(Abs(signal.quantity)), mark_map[signal.symbol]))
    THEN Verdict(FALSE, "Position size exceeds risk limit")
    ELSE IF /\ signal.symbol \notin DOMAIN positions
            /\ Cardinality(DOMAIN positions) >= limits.max_positions
    THEN Verdict(FALSE, "Maximum concurrent positions reached")
    ELSE IF starting_equity.set /\ starting_equity.v = Q(0)
    THEN Raised("ZeroDivisionError")
    ELSE Verdict(TRUE, "OK")

\* RiskManager.validate_signal
validate_signal(signal, mark_map, equity_now) ==
    IF signal.symbol \notin DOMAIN mark_map
    THEN Verdict(FALSE, "Missing mark price")
    ELSE
    LET price           == mark_map[signal.symbol]
        target_notional == RMul(Q(Abs(signal.quantity)), price)
        max_notional    == RMul(equity_now, limits.max_position_pct)
    IN  IF RLt(max_notional, target_notional)
        THEN Verdict(FALSE, "Position size exceeds risk limit")
        ELSE IF /\ signal.symbol \notin DOMAIN positions
                /\ Cardinality(DOMAIN positions) >= limits.max_positions
        THEN Verdict(FALSE, "Maximum concurrent positions reached")
        ELSE IF starting_equity.set
        THEN IF starting_equity.v = Q(0)
             THEN Raised("ZeroDivisionError")
             ELSE IF daily_loss_breached(equity_now, starting_equity.v)
             THEN Verdict(FALSE, "Daily loss limit breached")
             ELSE Verdict(TRUE, "OK")
        ELSE Verdict(TRUE, "OK")

----------------------------------------------------------------------------
(* Order router: execution/order_manager.py, and the router of the tests *)

Sides == {"BUY", "SELL"}

\* an OrderRequest built with a slip: the side is always BUY
OrderRequest_AlwaysBuy(symbol, side, quantity, price) ==
    [symbol |-> symbol, side |-> "BUY", quantity |-> quantity, price |-> price]

OrderRequest(symbol, side, quantity, price) ==
    [symbol |-> symbol, side |-> side, quantity |-> quantity, price |-> price]

OrderResult(status, filled_quantity, filled_price) ==
    [status |-> status, filled_quantity |-> filled_quantity,
     filled_price |-> filled_price]

NoRequest == OrderRequest("", "", 0, None)

\* x or default, for an Optional[float] x: None and 0.0 are both falsy
OrElse(x, default) == IF x.set /\ x.v # Q(0) THEN x.v ELSE default

\* the simulated fill with a slip: one above the price asked
_submit_simulated_Slipped(req) ==
    {[status |-> "FILLED", filled_quantity |-> req.quantity,
      filled_price |-> [set |-> TRUE, v |-> RAdd(req.price.v, Q(1))]]}

\* OrderManager._submit_simulated: FILLED, all of the quantity, at
\* request.price or 0.0
_submit_simulated(req) ==
    {OrderResult("FILLED", req.quantity, Some(OrElse(req.price, Q(0))))}

\* what the exchange may answer to create_order: executedQty and
\* cummulativeQuoteQty
LiveResponses(req) ==
    [executedQty : {0, req.quantity}, cummulativeQuoteQty : {Q(0), Q(3)}]

\* OrderManager._submit_live, when create_order answers: filled_price is
\* quote_qty / filled_qty if both are non-zero, else request.price
_submit_live(req) ==
    { OrderResult("LIVE", resp.executedQty,
                  IF resp.executedQty # 0 /\ resp.cummulativeQuoteQty # Q(0)
                  THEN Some(RDiv(resp.cummulativeQuoteQty, Q(resp.executedQty)))
                  ELSE req.price) : resp \in LiveResponses(req) }

\* StubOrderManager.submit of the tests: all of the quantity, at fill_price
\* when one is set, else at request.price
StubSubmit(req) ==
    {OrderResult("FILLED", req.quantity,
                 IF backend.fill_price.set THEN backend.fill_price ELSE req.price)}

\* the results submit(request) may return
submit(req) ==
    IF backend.kind = "simulated" THEN _submit_simulated(req)
    ELSE IF backend.kind = "live" THEN _submit_live(req)
    ELSE StubSubmit(req)

----------------------------------------------------------------------------
(* Execution loop: execution/execution_engine.py, with the stream task of  *)
(* data/data_manager.py that runs its tick handler                         *)

NoTick == [symbol |-> "", price |-> Q(0), equity |-> Q(0)]
NoExec ==
    [set |-> FALSE, symbol |-> "", side |-> "", filled_quantity |-> 0,
     filled_price |-> None]

\* the strategies an engine may hold
StrategyIds == {"s1", "s2"}
NoCalls == [s \in StrategyIds |-> 0]

Registered == {strategies[i] : i \in 1..Len(strategies)}
IndexOf(s) == CHOOSE i \in 1..Len(strategies) : strategies[i] = s

\* for strategy in self._strategies: the strategy the loop reaches next,
\* those that satisfy reached being behind it
NextInOrder(reached, s) ==
    /\ s \in Registered
    /\ ~ reached[s]
    /\ \A j \in 1..(IndexOf(s) - 1) : reached[strategies[j]]

\* ExecutionEngine.start, first step: the day anchor is the equity at start
start_reset_day ==
    /\ phase = "new"
    /\ reset_day(mark_to_market(marks))
    /\ phase' = "anchored"
    /\ UNCHANGED <<pvars, limits, backend, id_counter, marks, strategies,
                   is_running, pc, tick, done, on_error_calls, signals, request,
                   ticks, exec, fills, last, ovars>>

\* ExecutionEngine.start, the loop awaiting strategy.on_start():
\* BaseStrategy.on_start sets _is_running
on_start(s) ==
    /\ phase = "anchored"
    /\ NextInOrder(is_running, s)
    /\ is_running' = [is_running EXCEPT ![s] = TRUE]
    /\ phase' = IF \A t \in Registered \ {s} : is_running[t]
                THEN "started" ELSE phase
    /\ UNCHANGED <<pvars, rvars, backend, id_counter, marks, strategies, pc, tick,
                   done, on_error_calls, signals, request, ticks, exec, fills,
                   last, ovars>>

\* ExecutionEngine.start, the loop subscribing _handle_tick for each symbol
subscribe ==
    /\ phase = "started"
    /\ phase' = "subscribed"
    /\ UNCHANGED <<pvars, rvars, backend, id_counter, marks, strategies,
                   is_running, pc, tick, done, on_error_calls, signals, request,
                   ticks, exec, fills, last, ovars>>

\* DataManager.start_live_stream: the stream task is created
start_live_stream ==
    /\ phase = "subscribed"
    /\ phase' = "running"
    /\ UNCHANGED <<pvars, rvars, backend, id_counter, marks, strategies,
                   is_running, pc, tick, done, on_error_calls, signals, request,
                   ticks, exec, fills, last, ovars>>

\* start() creates the stream task before its for loops, not after them
Streaming_BeforeOnStart == phase \in {"anchored", "running"}

\* the stream task exists and has not ended
Streaming == phase = "running"

\* _runner starts a handler for each update without awaiting the last one
RunnerReady_NoAwait == pc \in {"idle", "gather"}

\* _runner: await self._publish(update) has returned, so that the
\* async for asks the stream for the next update
RunnerReady == pc = "idle"

\* _handle_tick up to the fan-out: the mark of the symbol is set and the
\* equity computed, then one on_data call per strategy is gathered
_handle_tick(symbol, price) ==
    /\ Streaming /\ RunnerReady
    /\ ticks < MaxTicks
    /\ ticks' = ticks + 1
    /\ marks' = IF symbol \in DOMAIN marks
                THEN [marks EXCEPT ![symbol] = price]
                ELSE marks @@ (symbol :> price)
    /\ tick' = [symbol |-> symbol, price |-> price,
                equity |-> mark_to_market(marks')]
    /\ done' = <<>>
    /\ on_error_calls' = NoCalls
    /\ pc' = "gather"
    /\ UNCHANGED <<pvars, rvars, backend, id_counter, strategies, is_running,
                   phase, signals, request, exec, fills, last, ovars>>

Returned(result) == [raised |-> FALSE, signals |-> result]
RaisedInOnData == [raised |-> TRUE, signals |-> <<>>]

\* BaseStrategy.on_data of strategy s completes: [] when the strategy is not
\* running, else what generate_signals returns, or its exception
on_data(s, outcome) ==
    /\ Streaming /\ pc = "gather"
    /\ s \in Registered
    /\ \A i \in 1..Len(done) : done[i].strategy # s
    /\ (~ is_running[s]) => outcome = Returned(<<>>)
    /\ done' = Append(done, [strategy |-> s, raised |-> outcome.raised,
                             signals |-> outcome.signals])
    /\ UNCHANGED <<pvars, rvars, backend, id_counter, marks, strategies,
                   is_running, phase, pc, tick, on_error_calls, signals, request,
                   ticks, exec, fills, last, ovars>>

\* results listed as they completed, not as they were passed in
Gathered_CompletionOrder(completed) == completed

\* asyncio.gather(*tasks, return_exceptions=True): the results in the order
\* of the awaitables, whatever the order of completion
Gathered(completed) ==
    [i \in 1..Len(strategies) |->
        completed[CHOOSE k \in 1..Len(completed) :
                      completed[k].strategy = strategies[i]]]

\* the loop over zip(results, self._strategies): an exception contributes
\* nothing, a list extends signals
RECURSIVE Collected(_)
Collected(results) ==
    IF results = <<>> THEN <<>>
    ELSE (IF Head(results).raised THEN <<>> ELSE Head(results).signals)
         \o Collected(Tail(results))

\* a strategy whose on_data raised is dropped from the engine
StrategiesAfter_DropsFailed(results) ==
    SelectSeq(strategies,
              LAMBDA s : \A i \in 1..Len(results) :
                            results[i].strategy = s => ~ results[i].raised)

\* self._strategies after the loop over the results: untouched
StrategiesAfter(results) == strategies

\* _handle_tick after the fan-out: gather returns; on_error is awaited for
\* each exception, the other results are concatenated
gather_returns ==
    /\ Streaming /\ pc = "gather"
    /\ \A s \in Registered : \E i \in 1..Len(done) : done[i].strategy = s
    /\ LET results == Gathered(done)
       IN  /\ on_error_calls' =
                 [s \in StrategyIds |->
                     on_error_calls[s]
                     + Cardinality({i \in 1..Len(results) :
                                       results[i].strategy = s /\ results[i].raised})]
           /\ signals' = Collected(results)
           /\ strategies' = StrategiesAfter(results)
    /\ pc' = "signals"
    /\ UNCHANGED <<pvars, rvars, backend, id_counter, marks, is_running, phase,
                   tick, done, request, ticks, exec, fills, last, ovars>>

\* the loop over the signals: the next one is validated; rejected, it is
\* dropped; allowed, its OrderRequest is built at the tick price and
\* submitted; the loop over, the handler returns
next_signal ==
    /\ Streaming /\ pc = "signals"
    /\ done' = <<>>
    /\ IF signals = <<>>
       THEN /\ pc' = "idle"
            /\ on_error_calls' = NoCalls
            /\ UNCHANGED <<phase, signals, request>>
       ELSE LET signal  == Head(signals)
                verdict == validate_signal(signal, marks, tick.equity)
            IN  IF verdict.raised
                THEN /\ phase' = "crashed"
                     /\ pc' = "idle"
                     /\ signals' = <<>>
                     /\ on_error_calls' = NoCalls
                     /\ UNCHANGED request
                ELSE IF ~ verdict.allowed
                THEN /\ signals' = Tail(signals)
                     /\ UNCHANGED <<phase, pc, request, on_error_calls>>
                ELSE /\ request' = OrderRequest(signal.symbol, signal.side,
                                                signal.quantity, Some(tick.price))
                     /\ pc' = "submit"
                     /\ UNCHANGED <<phase, signals, on_error_calls>>
    /\ UNCHANGED <<pvars, rvars, backend, id_counter, marks, strategies,
                   is_running, tick, ticks, exec, fills, last, ovars>>

\* notional = result.filled_quantity * (result.filled_price or mark_price)
Notional_of(result, mark_price) ==
    RMul(Q(result.filled_quantity), OrElse(result.filled_price, mark_price))

\* the position is booked at the price the router filled at
BookedPrice_FillPrice(result, mark_price) ==
    OrElse(result.filled_price, mark_price)

\* the price handed to update_position: mark_price, the price of the tick
BookedPrice(result, mark_price) == mark_price

\* _execute_signal once submit has returned: the cash moves by the notional
\* and the position by the filled quantity, with no await in between
_execute_signal(result) ==
    LET signal     == Head(signals)
        mark_price == tick.price
        notional   == Notional_of(result, mark_price)
    IN  /\ Streaming /\ pc = "submit"
        /\ result \in submit(request)
        /\ id_counter' = IF backend.kind = "simulated"
                         THEN id_counter + 1 ELSE id_counter
        /\ IF signal.side = "BUY"
           THEN /\ update_cash(RSub(Q(0), notional))
                /\ update_position(signal.symbol, result.filled_quantity,
                                   BookedPrice(result, mark_price))
           ELSE /\ update_cash(notional)
                /\ update_position(signal.symbol, 0 - result.filled_quantity,
                                   BookedPrice(result, mark_price))
        /\ exec' = [set |-> TRUE, symbol |-> signal.symbol, side |-> signal.side,
                    filled_quantity |-> result.filled_quantity,
                    filled_price |-> result.filled_price]
        /\ signals' = Tail(signals)
        /\ request' = NoRequest
        /\ pc' = "signals"
        /\ UNCHANGED <<rvars, backend, marks, strategies, is_running, phase, tick,
                       done, on_error_calls, ticks, fills, last, ovars>>

\* _submit_live when create_order fails: RuntimeError('Order rejected'),
\* which nothing in _execute_signal, _handle_tick, _publish or _runner
\* catches: the stream task ends with it
submit_raises ==
    /\ Streaming /\ pc = "submit"
    /\ backend.kind = "live"
    /\ phase' = "crashed"
    /\ pc' = "idle"
    /\ signals' = <<>>
    /\ request' = NoRequest
    /\ on_error_calls' = NoCalls
    /\ UNCHANGED <<pvars, rvars, backend, id_counter, marks, strategies,
                   is_running, tick, done, ticks, exec, fills, last, ovars>>

\* what ExecutionEngine.__init__ and the class body define on an engine
EngineAttributes ==
    {"_data_manager", "_portfolio", "_risk", "_orders", "_dashboard",
     "_strategies", "_marks", "_symbols", "register_strategy", "start", "stop",
     "_handle_tick", "_execute_signal"}

Got(value) == [raised |-> "", value |-> value]

\* reading engine.<name>: AttributeError for a name the engine has not; the
\* value for the two attributes the model holds
EngineAttribute(name) ==
    IF name \notin EngineAttributes
    THEN [raised |-> "AttributeError", value |-> <<>>]
    ELSE IF name = "_strategies" THEN Got(strategies)
    ELSE IF name = "_marks" THEN Got(marks)
    ELSE Got(<<>>)

\* the stream is WebSocketClient.stream over a BinanceService: run_paper
\* hands one service, or none, to the stream client and to the router
LiveStream == backend.kind = "live"

\* the live stream yields for a message that lacks 's', 'c' or 'E':
\* data[...] raises KeyError inside WebSocketClient.stream, the generator
\* ends, _runner's `async for` re-raises it and the stream task is over
malformed_message ==
    /\ Streaming /\ RunnerReady
    /\ LiveStream
    /\ malformed' = TRUE
    /\ phase' = "crashed"
    /\ UNCHANGED <<pvars, rvars, backend, id_counter, marks, strategies,
                   is_running, pc, tick, done, on_error_calls, signals, request,
                   ticks, exec, fills, last, close_called, svars, tvars,
                   bvars, xvars>>

\* the stream task is suspended in an await that gives the event loop to
\* other tasks: the next update, the gather, create_order of the live router
\* (the simulated and the stub submit return without yielding)
AtSuspension ==
    \/ pc \in {"idle", "gather"}
    \/ pc = "submit" /\ backend.kind = "live"

\* ExecutionEngine.stop, first step, DataManager.stop_live_stream: the source
\* is disconnected, the stream task cancelled and awaited.  CancelledError
\* is raised in the task where it is suspended, an OrderRequest in flight
\* stays unanswered; a task that died of an exception hands it to stop
stop_live_stream ==
    /\ \/ /\ Streaming /\ AtSuspension
          /\ phase' = "cancelled"
          /\ pc' = "idle"
          /\ signals' = <<>>
          /\ done' = <<>>
          /\ on_error_calls' = NoCalls
       \/ /\ phase = "crashed"
          /\ phase' = "stop_raised"
          /\ UNCHANGED <<pc, signals, done, on_error_calls>>
    /\ UNCHANGED <<pvars, rvars, backend, id_counter, marks, strategies,
                   is_running, tick, request, ticks, exec, fills, last, ovars>>

\* stop() runs its on_stop loop without the stream task having ended
Drained_NotAwaited == phase \in {"running", "cancelled"}

\* stop_live_stream has returned: the task was cancelled and awaited
Drained == phase = "cancelled"

\* ExecutionEngine.stop, the loop awaiting strategy.on_stop():
\* BaseStrategy.on_stop clears _is_running
on_stop(s) ==
    /\ Drained
    /\ NextInOrder([t \in StrategyIds |-> ~ is_running[t]], s)
    /\ is_running' = [is_running EXCEPT ![s] = FALSE]
    /\ phase' = IF \A t \in Registered \ {s} : ~ is_running[t]
                THEN "stopped" ELSE phase
    /\ UNCHANGED <<pvars, rvars, backend, id_counter, marks, strategies, pc, tick,
                   done, on_error_calls, signals, request, ticks, exec, fills,
                   last, ovars>>

----------------------------------------------------------------------------
(* Calls on a PortfolioManager built with a starting cash, as the unit     *)
(* tests of tests/test_portfolio_manager.py make them, in any order.       *)
(* mark_to_market reads the state and changes nothing: it is the operator  *)
(* above, evaluated in every state for every mark map.                     *)

EmptyMap == [s \in {} |-> Position(s)]

QuantityOf(pos, symbol) == IF symbol \in DOMAIN pos THEN pos[symbol].quantity ELSE 0

Prices         == {Q(1), Q(2)}
FillQuantities == {0 - 2, 0 - 1, 0, 1, 2}
StartingCash   == {Q(0), Q(3)}
MarkMaps       == UNION {[D -> Prices \cup {Q(0)}] : D \in SUBSET Symbols}

Simulated == [kind |-> "simulated", fill_price |-> None]

\* no engine is built: its variables keep these values
NoEngine ==
    /\ backend = Simulated
    /\ id_counter = 0
    /\ marks = EmptyMap
    /\ strategies = <<>>
    /\ is_running = [s \in StrategyIds |-> FALSE]
    /\ phase = "new"
    /\ pc = "idle"
    /\ tick = NoTick
    /\ done = <<>>
    /\ on_error_calls = NoCalls
    /\ signals = <<>>
    /\ request = NoRequest
    /\ ticks = 0
    /\ exec = NoExec
    /\ close_called = FALSE
    /\ malformed = FALSE

\* no submit call is made outside the engine
NoSubmits ==
    /\ lock = ""
    /\ calls = [c \in {} |-> 0]
    /\ acquired = <<>>

\* no strategy object is exercised on its own
NoStrategy ==
    /\ strategy = [kind |-> "none"]
    /\ strategy_call = [op |-> "none"]
    /\ lifecycle = "none"
    /\ seen = EmptyMap

\* no backtest is run
NoBacktest ==
    /\ bt = [pc |-> "none"]
    /\ candles = <<>>
    /\ equity_curve = <<>>
    /\ executed = <<>>
    /\ bt_orders = <<>>
    /\ bt_trace = <<>>

\* no exchange service is wired, no stream task created
NoService ==
    /\ service = [wiring |-> "none"]
    /\ tasks = [t \in {} |-> 0]
    /\ stream_task = [cancel |-> FALSE, outcome |-> "none"]
    /\ registered = <<>>
    /\ on_stop_calls = <<>>

NoCall ==
    [op |-> "none", symbol |-> "", fill_quantity |-> 0, fill_price |-> Q(0)]

\* PortfolioManager(starting_cash): a snapshot with that cash and no position
InitPortfolio ==
    /\ cash \in StartingCash
    /\ positions = EmptyMap
    /\ run = [s \in Symbols |-> NoRun]
    /\ starting_equity = None
    /\ limits = DefaultLimits
    /\ NoEngine
    /\ NoSubmits
    /\ NoStrategy
    /\ NoBacktest
    /\ NoService
    /\ fills = 0
    /\ last = NoCall

Call_update_position ==
    \E symbol \in Symbols, fill_quantity \in FillQuantities, fill_price \in Prices :
        /\ fill_quantity # 0 => fills < MaxFills
        /\ fills' = IF fill_quantity = 0 THEN fills ELSE fills + 1
        /\ update_position(symbol, fill_quantity, fill_price)
        /\ last' = [op |-> "update_position", symbol |-> symbol,
                    fill_quantity |-> fill_quantity, fill_price |-> fill_price]
        /\ UNCHANGED <<cash, rvars, evars, ovars>>

NextPortfolio == Call_update_position

SpecPortfolio == InitPortfolio /\ [][NextPortfolio]_vars

----------------------------------------------------------------------------
(* Claims on the portfolio accountant, under SpecPortfolio.  Every step of *)
(* SpecPortfolio is one update_position call; last' holds its arguments,   *)
(* the unprimed variables the state it was made in.                        *)

\* C1: after any sequence of update_position calls on a fresh portfolio,
\* every position whose quantity is 0 has average_price 0.
C1_FlatPositionHasNoAverage ==
    \A s \in DOMAIN positions :
        positions[s].quantity = 0 => positions[s].average_price = Q(0)

\* a non-zero fill at a non-zero price has just closed a position exactly
C1_Witness ==
    /\ last.op = "update_position"
    /\ last.fill_quantity # 0
    /\ last.fill_price # Q(0)
    /\ run[last.symbol] = NoRun
    /\ fills >= 2
    /\ positions[last.symbol].quantity = 0

\* C2: after fills (q_i, p_i) of one sign on a symbol that had no position,
\* quantity is the sum of the q_i and average_price the sum of |q_i| * p_i
\* divided by the sum of |q_i|.
C2_SameDirectionAverage ==
    \A s \in Symbols :
        (run[s].pure /\ run[s].n >= 1) =>
            /\ s \in DOMAIN positions
            /\ positions[s].quantity = run[s].sum_q
            /\ positions[s].average_price = RDiv(run[s].sum_qp, Q(run[s].sum_abs))

\* three fills of one sign and of unequal sizes and prices were averaged
C2_Witness ==
    \E s \in Symbols :
        /\ run[s].pure
        /\ run[s].n = 3
        /\ run[s].sum_abs = 5
        /\ positions[s].average_price \notin Prices

\* C3: a fill of the opposite sign and of smaller size than the position
\* leaves average_price as it was and takes |fill| off |quantity|, whatever
\* the fill price.
C3_PartialCloseKeepsAverage ==
    [][ \A s \in DOMAIN positions :
          (/\ last'.op = "update_position"
           /\ last'.symbol = s
           /\ positions[s].quantity * last'.fill_quantity < 0
           /\ Abs(last'.fill_quantity) < Abs(positions[s].quantity))
          => /\ positions'[s].average_price = positions[s].average_price
             /\ Abs(positions'[s].quantity)
                    = Abs(positions[s].quantity) - Abs(last'.fill_quantity) ]_vars

\* a short position was partly bought back at a price other than its average
C3_Witness ==
    /\ last.op = "update_position"
    /\ last.fill_quantity > 0
    /\ positions[last.symbol].quantity < 0
    /\ positions[last.symbol].average_price # last.fill_price

\* C4: a fill of the opposite sign and of larger size than the position sets
\* quantity to prior + fill and average_price to the price of that fill.
C4_FlipTakesFillPrice ==
    [][ \A s \in DOMAIN positions :
          (/\ last'.op = "update_position"
           /\ last'.symbol = s
           /\ positions[s].quantity * last'.fill_quantity < 0
           /\ Abs(last'.fill_quantity) > Abs(positions[s].quantity))
          => /\ positions'[s].quantity = positions[s].quantity + last'.fill_quantity
             /\ positions'[s].average_price = last'.fill_price ]_vars

\* a long position of 1 was sold 2: the position is now short 1
C4_Witness ==
    /\ last.op = "update_position"
    /\ last.fill_quantity = 0 - 2
    /\ positions[last.symbol].quantity = 0 - 1
    /\ positions[last.symbol].average_price = last.fill_price

\* the symbols with a position that is not flat
Held == {s \in DOMAIN positions : positions[s].quantity # 0}

\* cash plus, for each of the symbols of S, quantity times m[symbol] when m
\* has the symbol and quantity times average_price when it has not
RECURSIVE MarkedValue(_, _)
MarkedValue(S, m) ==
    IF S = {} THEN cash
    ELSE LET s == CHOOSE x \in S : TRUE
         IN  RAdd(MarkedValue(S \ {s}, m),
                  IF s \in DOMAIN m
                  THEN RMul(Q(positions[s].quantity), m[s])
                  ELSE RMul(Q(positions[s].quantity), positions[s].average_price))

\* C5: in every reachable portfolio state and for every mark map,
\* mark_to_market(marks) is cash plus the sum over held symbols of quantity
\* times the mark, or times average_price for a symbol without a mark; with
\* no marks it is cash plus the sum of quantity times average_price.
C5_MarkToMarket ==
    /\ \A m \in MarkMaps : mark_to_market(m) = MarkedValue(Held, m)
    /\ mark_to_market(EmptyMap) = MarkedValue(Held, EmptyMap)

\* two positions are open, one long and one short, and a mark map prices one
\* of them away from its average and has no price for the other
C5_Witness ==
    /\ Held = Symbols
    /\ \E s \in Symbols : positions[s].quantity < 0
    /\ \E s \in Symbols : positions[s].quantity > 0
    /\ \E m \in MarkMaps, s \in Symbols :
          /\ DOMAIN m = {s}
          /\ m[s] # positions[s].average_price
          /\ mark_to_market(m) # mark_to_market(EmptyMap)
          /\ mark_to_market(m) # cash

\* C6: update_position(symbol, 0, price) changes nothing: not the cash, not a
\* position, not the set of symbols of the positions mapping.
C6_ZeroFillIsNoOp ==
    [][ (last'.op = "update_position" /\ last'.fill_quantity = 0)
        => (positions' = positions /\ cash' = cash) ]_vars

----------------------------------------------------------------------------
(* Calls on a RiskManager over a PortfolioManager, as the unit tests of    *)
(* tests/test_risk_manager.py make them, after non-zero fills in any order.*)
(* validate_signal reads the state and changes nothing: it is the operator *)
(* above, evaluated in every state for every signal, mark map and equity.  *)

LimitChoices ==
    { DefaultLimits,
      [max_position_pct |-> Rat(1, 2), max_daily_loss_pct |-> Rat(1, 5),
       max_positions |-> 1],
      [max_position_pct |-> Q(1), max_daily_loss_pct |-> Rat(1, 2),
       max_positions |-> 2] }

Signals  == [symbol : Symbols, side : Sides, quantity : {1, 2}]
Equities == {Q(0), Q(4), Q(8), Q(10)}
Anchors  == {Q(0), Q(10)}

\* RiskManager(portfolio, limits) over a fresh PortfolioManager
InitRisk ==
    /\ cash \in StartingCash
    /\ positions = EmptyMap
    /\ run = [s \in Symbols |-> NoRun]
    /\ starting_equity = None
    /\ limits \in LimitChoices
    /\ NoEngine
    /\ NoSubmits
    /\ NoStrategy
    /\ NoBacktest
    /\ NoService
    /\ fills = 0
    /\ last = NoCall

Risk_update_position ==
    \E symbol \in Symbols, fill_quantity \in {0 - 1, 1} :
        /\ fills < MaxFills
        /\ fills' = fills + 1
        /\ update_position(symbol, fill_quantity, Q(1))
        /\ last' = [op |-> "update_position", symbol |-> symbol,
                    fill_quantity |-> fill_quantity, fill_price |-> Q(1)]
        /\ UNCHANGED <<cash, rvars, evars, ovars>>

Call_reset_day ==
    \E anchor \in Anchors :
        /\ reset_day(anchor)
        /\ last' = [NoCall EXCEPT !.op = "reset_day", !.fill_price = anchor]
        /\ UNCHANGED <<pvars, limits, evars, fills, ovars>>

NextRisk == Risk_update_position \/ Call_reset_day

SpecRisk == InitRisk /\ [][NextRisk]_vars

----------------------------------------------------------------------------
(* Claims on the risk gate, under SpecRisk *)

Notional(signal, mark_map) == RMul(Q(Abs(signal.quantity)), mark_map[signal.symbol])

\* the four checks, each as the condition under which it fails
MarkMissing(signal, mark_map) == signal.symbol \notin DOMAIN mark_map
SizeExceeded(signal, mark_map, e) ==
    ~ RLe(Notional(signal, mark_map), RMul(e, limits.max_position_pct))
\* the cap as validate_signal reads it, off the keys of the positions mapping
CapReached(signal) ==
    /\ signal.symbol \notin DOMAIN positions
    /\ Cardinality(DOMAIN positions) >= limits.max_positions
AnchorUsable == starting_equity.set /\ starting_equity.v # Q(0)
LossBreached(e) ==
    /\ AnchorUsable
    /\ RLt(limits.max_daily_loss_pct,
           Rat(starting_equity.v[1] * e[2] - e[1] * starting_equity.v[2],
               starting_equity.v[1] * e[2]))

\* C7: validate_signal checks (1) mark present, (2) notional within
\* equity * max_position_pct, (3) concurrent-position cap, (4) daily loss, in
\* that order; the reason is that of the first check that fails and the
\* result is (True, 'OK') exactly when none fails; notional equal to its limit
\* and drawdown equal to its limit both pass.  (Stated of the calls that
\* return; the cap is the one CapReached states.)
C7_EarliestFailingCheck ==
    \A signal \in Signals, m \in MarkMaps, e \in Equities :
        LET r == validate_signal(signal, m, e)
        IN  ~ r.raised =>
            /\ (r.reason = "Missing mark price") = MarkMissing(signal, m)
            /\ (r.reason = "Position size exceeds risk limit")
                   = (~ MarkMissing(signal, m) /\ SizeExceeded(signal, m, e))
            /\ (r.reason = "Maximum concurrent positions reached")
                   = (/\ ~ MarkMissing(signal, m)
                      /\ ~ SizeExceeded(signal, m, e)
                      /\ CapReached(signal))
            /\ (r.reason = "Daily loss limit breached")
                   = (/\ ~ MarkMissing(signal, m)
                      /\ ~ SizeExceeded(signal, m, e)
                      /\ ~ CapReached(signal)
                      /\ LossBreached(e))
            /\ (r.reason = "OK")
                   = (/\ ~ MarkMissing(signal, m)
                      /\ ~ SizeExceeded(signal, m, e)
                      /\ ~ CapReached(signal)
                      /\ ~ LossBreached(e))
            /\ r.allowed = (r.reason = "OK")
            /\ r.reason \in {"Missing mark price", "Position size exceeds risk limit",
                              "Maximum concurrent positions reached",
                              "Daily loss limit breached", "OK"}

\* with the anchor set and the cap reached, one call fails checks 2, 3 and 4
\* at once and is rejected for its size; another has notional equal to its
\* limit and drawdown equal to its limit and is allowed
C7_Witness ==
    /\ AnchorUsable
    /\ \E signal \in Signals, m \in MarkMaps, e \in Equities :
          /\ ~ MarkMissing(signal, m)
          /\ SizeExceeded(signal, m, e) /\ CapReached(signal) /\ LossBreached(e)
          /\ validate_signal(signal, m, e)
                = Verdict(FALSE, "Position size exceeds risk limit")
    /\ \E signal \in Signals, m \in MarkMaps, e \in Equities :
          /\ ~ MarkMissing(signal, m)
          /\ CapReached(signal) /\ LossBreached(e)
          /\ validate_signal(signal, m, e)
                = Verdict(FALSE, "Maximum concurrent positions reached")
    /\ \E signal \in Signals, m \in MarkMaps, e \in Equities :
          /\ ~ MarkMissing(signal, m)
          /\ Notional(signal, m) = RMul(e, limits.max_position_pct)
          /\ Notional(signal, m) # Q(0)
          /\ RSub(Q(1), RDiv(e, starting_equity.v)) = limits.max_daily_loss_pct
          /\ validate_signal(signal, m, e) = Verdict(TRUE, "OK")

\* C8 as claimed: with the DayAnchor set and 1 - equity/anchor above
\* max_daily_loss_pct, a signal whose symbol has a mark is rejected with
\* 'Daily loss limit breached' whatever its quantity.
C8_DailyLossWhateverTheSize ==
    \A signal \in Signals, m \in MarkMaps, e \in Equities :
        (LossBreached(e) /\ ~ MarkMissing(signal, m)) =>
            validate_signal(signal, m, e) = Verdict(FALSE, "Daily loss limit breached")

\* C8 as amended: with the DayAnchor set and 1 - equity/anchor above
\* max_daily_loss_pct, a signal whose symbol has a mark is rejected whatever
\* its quantity; the reason is 'Daily loss limit breached' when its notional
\* is within equity * max_position_pct and the concurrent-position check
\* passes, and the reason of the earlier check that fails otherwise.
C8_DailyLossRejects ==
    \A signal \in Signals, m \in MarkMaps, e \in Equities :
        (LossBreached(e) /\ ~ MarkMissing(signal, m)) =>
            LET r == validate_signal(signal, m, e)
            IN  /\ ~ r.raised
                /\ ~ r.allowed
                /\ SizeExceeded(signal, m, e)
                      => r.reason = "Position size exceeds risk limit"
                /\ (~ SizeExceeded(signal, m, e) /\ CapReached(signal))
                      => r.reason = "Maximum concurrent positions reached"
                /\ (~ SizeExceeded(signal, m, e) /\ ~ CapReached(signal))
                      => r.reason = "Daily loss limit breached"

\* the daily loss is breached; a small signal is rejected for the loss and a
\* large one, on the same marks and equity, for its size
C8_Witness ==
    \E small, large \in Signals, m \in MarkMaps, e \in Equities :
        /\ LossBreached(e)
        /\ small.symbol = large.symbol /\ small.symbol \in DOMAIN m
        /\ validate_signal(small, m, e) = Verdict(FALSE, "Daily loss limit breached")
        /\ validate_signal(large, m, e)
              = Verdict(FALSE, "Position size exceeds risk limit")

\* C9: the concurrent-position check counts only the symbols whose quantity
\* is not 0: a signal for a symbol with no open position, with a mark and
\* within its size limit, is rejected with 'Maximum concurrent positions
\* reached' exactly when the number of symbols with non-zero quantity is
\* >= max_positions.
C9_CapCountsOpenPositions ==
    \A signal \in Signals, m \in MarkMaps, e \in Equities :
        (/\ QuantityOf(positions, signal.symbol) = 0
         /\ ~ MarkMissing(signal, m)
         /\ ~ SizeExceeded(signal, m, e))
        => ((validate_signal(signal, m, e).reason
                = "Maximum concurrent positions reached")
            = (Cardinality(Held) >= limits.max_positions))

----------------------------------------------------------------------------
(* The engine of main.run_paper and of tests/test_execution_engine.py: one *)
(* strategy, a fresh portfolio, a router, and the ticks of the stream      *)

TestLimits ==
    [max_position_pct |-> Q(1), max_daily_loss_pct |-> Q(1), max_positions |-> 5]

CapLimits == [TestLimits EXCEPT !.max_positions = 1]

\* the routers: OrderManager without a service (simulated), OrderManager
\* with a BinanceService (live) under a stream that delivers ticks, and
\* the StubOrderManager of the tests with a fill_price set
Backends ==
    { Simulated,
      [kind |-> "live", fill_price |-> None],
      [kind |-> "stub", fill_price |-> Some(Q(0))],
      [kind |-> "stub", fill_price |-> Some(Rat(3, 2))] }

\* the engines built: two strategies on the simulated router, one strategy
\* on each other router, and on the simulated router under a cap of one
Engines ==
    {<<TestLimits, Simulated, <<"s1", "s2">>>>, <<CapLimits, Simulated, <<"s1">>>>}
    \cup {<<TestLimits, b, <<"s1">>>> : b \in Backends \ {Simulated}}

EngineSignals ==
    { [symbol |-> "BTCUSDT", side |-> "BUY", quantity |-> 1],
      [symbol |-> "BTCUSDT", side |-> "SELL", quantity |-> 2],
      [symbol |-> "ETHUSDT", side |-> "SELL", quantity |-> 1] }

\* what generate_signals may hand back: no signal, one, or a BUY then a SELL
SignalLists ==
    {<<>>} \cup {<<a>> : a \in EngineSignals}
           \cup {<<[symbol |-> "BTCUSDT", side |-> "BUY", quantity |-> 1],
                    [symbol |-> "BTCUSDT", side |-> "SELL", quantity |-> 2]>>}

\* how an on_data call may end
Outcomes == {RaisedInOnData} \cup {Returned(l) : l \in SignalLists}

Init ==
    /\ cash = Q(10)
    /\ positions = EmptyMap
    /\ run = [s \in Symbols |-> NoRun]
    /\ starting_equity = None
    /\ \E engine \in Engines : /\ limits = engine[1]
                                /\ backend = engine[2]
                                /\ strategies = engine[3]
    /\ id_counter = 0
    /\ marks = EmptyMap
    /\ is_running = [s \in StrategyIds |-> FALSE]
    /\ phase = "new"
    /\ pc = "idle"
    /\ tick = NoTick
    /\ done = <<>>
    /\ on_error_calls = NoCalls
    /\ signals = <<>>
    /\ request = NoRequest
    /\ ticks = 0
    /\ exec = NoExec
    /\ close_called = FALSE
    /\ malformed = FALSE
    /\ NoSubmits
    /\ NoStrategy
    /\ NoBacktest
    /\ NoService
    /\ fills = 0
    /\ last = NoCall

OnStart == \E s \in StrategyIds : on_start(s)
Tick == \E symbol \in Symbols, price \in Prices : _handle_tick(symbol, price)
OnData == \E s \in StrategyIds, outcome \in Outcomes : on_data(s, outcome)
SubmitReturns == \E result \in submit(request) : _execute_signal(result)
OnStop == \E s \in StrategyIds : on_stop(s)

Next ==
    \/ start_reset_day
    \/ OnStart
    \/ subscribe
    \/ start_live_stream
    \/ Tick
    \/ OnData
    \/ gather_returns
    \/ next_signal
    \/ SubmitReturns
    \/ submit_raises
    \/ malformed_message
    \/ stop_live_stream
    \/ OnStop

Spec == Init /\ [][Next]_vars

----------------------------------------------------------------------------
(* Claims on the execution loop, under Spec *)

\* C10: for every signal the loop executes, cash changes by -notional for a
\* BUY and +notional for a SELL, where notional is filled_quantity times
\* filled_price when filled_price is not null (0 included) and
\* filled_quantity times the tick price only when it is null.  (The step
\* from "submit" to "signals" is _execute_signal booking the fill exec'.)
C10_CashMovesByFillNotional ==
    [][ (pc = "submit" /\ pc' = "signals") =>
          LET fill_price == IF exec'.filled_price.set
                            THEN exec'.filled_price.v ELSE tick.price
              notional   == RMul(Q(exec'.filled_quantity), fill_price)
          IN  cash' = IF exec'.side = "BUY"
                      THEN RSub(cash, notional)
                      ELSE RAdd(cash, notional) ]_vars

\* the step in which _execute_signal books the fill exec' of a signal
Books == pc = "submit" /\ pc' = "signals"

\* the filled quantity of exec', signed as _execute_signal signs it
SignedFill == IF exec'.side = "BUY" THEN exec'.filled_quantity
              ELSE 0 - exec'.filled_quantity

C12_PositionBookedAtFillPrice ==
    [][ (/\ Books
         /\ QuantityOf(positions, exec'.symbol) = 0 /\ SignedFill # 0
         /\ exec'.filled_price.set /\ exec'.filled_price.v # tick.price)
        => positions'[exec'.symbol].average_price = exec'.filled_price.v ]_vars

\* the step in which gather returns and its results are looped over
Gathers == pc = "gather" /\ pc' = "signals"

\* how the on_data call of strategy s ended, as recorded in done
OutcomeOf(s) == done[CHOOSE k \in 1..Len(done) : done[k].strategy = s]

\* the signals of the strategies from the i-th on, in registration order,
\* a strategy whose on_data raised giving none
RECURSIVE SignalsFrom(_)
SignalsFrom(i) ==
    IF i > Len(strategies) THEN <<>>
    ELSE (IF OutcomeOf(strategies[i]).raised THEN <<>>
          ELSE OutcomeOf(strategies[i]).signals) \o SignalsFrom(i + 1)

\* C13: when the on_data of a strategy raises, its on_error is called once
\* and it contributes no signal for the tick; the signals of every other
\* strategy are still queued for the risk check and the router, each one
\* validated in its turn; the failing strategy stays registered, and the
\* handler of a tick returns from gather only with a result of every
\* registered strategy, the one that failed before included.
C13_StrategyErrorIsIsolated ==
    [][ /\ Gathers =>
              /\ \A s \in Registered :
                    on_error_calls'[s] = IF OutcomeOf(s).raised THEN 1 ELSE 0
              /\ signals' = SignalsFrom(1)
              /\ {done[k].strategy : k \in 1..Len(done)} = Registered
        /\ strategies' = strategies
        /\ (pc = "signals" /\ signals # <<>> /\ phase' = "running")
              => \/ pc' = "submit" /\ request'.symbol = Head(signals).symbol
                 \/ signals' = Tail(signals)
      ]_vars

\* in the second tick s1 raised, on_error was called on it once and not on
\* s2, and a signal of s2 is at the router
C13_Witness ==
    /\ ticks = 2
    /\ pc = "submit"
    /\ strategies = <<"s1", "s2">>
    /\ on_error_calls = [s \in StrategyIds |-> IF s = "s1" THEN 1 ELSE 0]
    /\ request # NoRequest

\* C14: when submit raises for a signal, the execution loop does not
\* terminate: a step taken while an OrderRequest is at the router leaves
\* the stream task alive (running, or cancelled by stop), and if the
\* handler goes on, it goes on with the remaining signals of the tick.
C14_SubmitFailureDoesNotEndLoop ==
    [][ (Streaming /\ pc = "submit")
        => /\ phase' \in {"running", "cancelled"}
           /\ (phase' = "running" /\ pc' # "submit")
                 => pc' = "signals" /\ signals' = Tail(signals) ]_vars

\* C15: the portfolio mutation is atomic per fill.  In every step the cash
\* changes exactly when the quantity of some position changes; such a step
\* is the booking of one fill, which moves the cash by its notional and
\* the position by its quantity; and a step that ends a submission
\* otherwise (the router raises, stop cancels the task) changes neither.
C15_FillIsAtomic ==
    [][ /\ (cash' # cash)
            <=> (\E s \in Symbols :
                    QuantityOf(positions', s) # QuantityOf(positions, s))
        /\ (cash' # cash)
            => /\ Books
               /\ cash' = RSub(cash, RMul(Q(SignedFill),
                                          OrElse(exec'.filled_price, tick.price)))
               /\ QuantityOf(positions', exec'.symbol)
                    = QuantityOf(positions, exec'.symbol) + SignedFill
        /\ (pc = "submit" /\ ~ Books)
            => cash' = cash /\ positions' = positions
      ]_vars

\* a fill was booked, cash and position both, and stop then cancelled the
\* stream task with a later OrderRequest at the router, which changed
\* neither
C15_Witness ==
    /\ phase = "cancelled"
    /\ request # NoRequest
    /\ exec.set /\ exec.side = "BUY" /\ exec.filled_quantity = 1
    /\ cash = Q(9)
    /\ QuantityOf(positions, exec.symbol) = 1

\* C16: the signals of a tick are risk-checked and submitted in the order
\* of registration of their strategies and, within a strategy, in the
\* order of the list it returned, in whatever order the on_data calls
\* completed: gather leaves them queued in that order, the request built
\* is always that of the head of the queue, and the queue only ever
\* loses its head.
C16_SignalsInRegistrationOrder ==
    [][ /\ Gathers => signals' = SignalsFrom(1)
        /\ (pc = "signals" /\ pc' = "submit")
              => request' = OrderRequest(Head(signals).symbol, Head(signals).side,
                                         Head(signals).quantity, Some(tick.price))
        /\ (pc \in {"signals", "submit"} /\ phase' = "running")
              => \/ signals' = signals
                 \/ signals # <<>> /\ signals' = Tail(signals)
      ]_vars

\* s2 completed before s1, s1 returned two signals and s2 one, and the
\* queue holds those of s1, in their order, before that of s2
C16_Witness ==
    /\ pc = "signals"
    /\ Len(done) = 2
    /\ done[1].strategy = "s2" /\ done[2].strategy = "s1"
    /\ Len(done[2].signals) = 2 /\ Len(done[1].signals) = 1
    /\ done[1].signals[1] \notin {done[2].signals[1], done[2].signals[2]}
    /\ signals = done[2].signals \o done[1].signals

\* C17: ticks are handled one at a time, in the order the source yields
\* them.  The handler of a tick starts only when the handler before it has
\* returned (no on_data call pending, no signal queued, no OrderRequest at
\* the router), ticks are taken one by one, the tick of a handler stays
\* its tick until it returns, and every portfolio mutation is that of an
\* order built at the price of the tick being handled.
C17_TicksHandledOneAtATime ==
    [][ /\ (ticks' # ticks)
              => /\ ticks' = ticks + 1
                 /\ pc = "idle" /\ pc' = "gather"
                 /\ done = <<>> /\ signals = <<>> /\ request = NoRequest
        /\ (tick' # tick) => ticks' # ticks
        /\ (cash' # cash \/ positions' # positions)
              => /\ ticks' = ticks /\ tick' = tick
                 /\ request.price = Some(tick.price)
      ]_vars

\* the handler of the second tick has started, after the handler of the
\* first booked a fill and returned
C17_Witness ==
    /\ ticks = 2
    /\ pc = "gather"
    /\ exec.set
    /\ cash # Q(10)

\* C18: if stop() is called while a submission is in flight, the submission
\* is awaited, not cancelled: when stop() has returned, no OrderRequest is
\* left at the router unanswered, its fill unbooked.
C18_InFlightSubmitIsAwaited == (phase = "stopped") => (request = NoRequest)

AllRunning == \A s \in Registered : is_running[s]

\* C19: start performs its steps in order.  The anchor is set once, first,
\* to the equity of the portfolio; on_start is called on a strategy only
\* with the anchor set and every strategy registered before it started;
\* the handler is subscribed only with every strategy started, the stream
\* begun only with the handler subscribed; hence a tick is handled only
\* with the anchor set and every registered strategy running.
C19_StartInOrder ==
    [][ /\ (starting_equity' # starting_equity)
              => /\ phase = "new"
                 /\ \A s \in Registered : ~ is_running[s]
                 /\ starting_equity' = Some(mark_to_market(marks))
        /\ \A s \in Registered :
              (~ is_running[s] /\ is_running'[s])
              => /\ starting_equity.set
                 /\ phase \notin {"subscribed", "running"}
                 /\ \A j \in 1..(IndexOf(s) - 1) : is_running[strategies[j]]
        /\ (phase # "subscribed" /\ phase' = "subscribed") => AllRunning
        /\ (phase # "running" /\ phase' = "running") => phase = "subscribed"
        /\ (ticks' # ticks) => starting_equity.set /\ AllRunning
      ]_vars

\* both strategies were started, the anchor is the starting cash, and the
\* first tick is being handled
C19_Witness ==
    /\ strategies = <<"s1", "s2">>
    /\ starting_equity = Some(Q(10))
    /\ AllRunning
    /\ phase = "running"
    /\ ticks = 1 /\ pc = "gather"

\* stop has called on_stop on at least one strategy
OnStopCalled ==
    /\ phase \notin {"new", "anchored"}
    /\ \E s \in Registered : ~ is_running[s]

\* C20: stop ends the stream task before it calls on_stop, and calls
\* on_stop in registration order.  on_stop is called on a strategy only
\* with the task cancelled, no handler running, and every strategy
\* registered before it stopped; and once on_stop has been called no tick
\* is handled, no order submitted and no portfolio mutation applied.
C20_StopDrainsBeforeOnStop ==
    [][ /\ \A s \in Registered :
              (is_running[s] /\ ~ is_running'[s])
              => /\ phase = "cancelled"
                 /\ pc = "idle" /\ done = <<>> /\ signals = <<>>
                 /\ \A j \in 1..(IndexOf(s) - 1) : ~ is_running[strategies[j]]
        /\ OnStopCalled
              => /\ phase \in {"cancelled", "stopped"}
                 /\ pc' = "idle"
                 /\ UNCHANGED <<ticks, tick, marks, request, id_counter, exec,
                                cash, positions>>
      ]_vars

\* stop cancelled the handler of the second tick during its gather, after
\* a fill of the first; on_stop was called on s1 and not yet on s2
C20_Witness ==
    /\ phase = "cancelled"
    /\ strategies = <<"s1", "s2">>
    /\ ~ is_running["s1"] /\ is_running["s2"]
    /\ ticks = 2
    /\ exec.set

\* C21: stop() also closes the order manager: when stop() has returned, the
\* router's close() has been called.
C21_StopClosesRouter == (phase = "stopped") => close_called

\* C22: the engine exposes a view `strategies` that equals the tuple of the
\* registered strategies, in registration order.
C22_StrategiesView == EngineAttribute("strategies") = Got(strategies)

----------------------------------------------------------------------------
(* Concurrent submit calls on the simulated router:                        *)
(* execution/order_manager.py.  Each statement of _submit_simulated is a   *)
(* step, and the steps of different calls interleave freely: this is every *)
(* schedule of the event loop and more.                                    *)

Callers == {"c1", "c2", "c3"}

\* a submit call: where it stands, and the number in its order id sim-<n>
\* (0 while order_id is unbound)
Call(at, order_id) == [at |-> at, order_id |-> order_id]

LockFree_NoMutex == TRUE

\* asyncio.Lock.locked() is false
LockFree == lock = ""

\* no portfolio, risk gate or engine is exercised
NoTrading ==
    /\ cash = Q(0)
    /\ positions = EmptyMap
    /\ run = NoRun
    /\ starting_equity = None
    /\ limits = DefaultLimits
    /\ NoEngine
    /\ fills = 0
    /\ last = NoCall

InitSubmit ==
    /\ NoTrading
    /\ NoStrategy
    /\ NoBacktest
    /\ NoService
    /\ lock = ""
    /\ calls = [c \in Callers |-> Call("new", 0)]
    /\ acquired = <<>>

\* everything but the router's counter and lock
nonrouter == <<pvars, rvars, backend, marks, strategies, is_running, phase, pc,
               tick, done, on_error_calls, signals, request, ticks, exec, fills,
               last, close_called, malformed, tvars, bvars, xvars>>

\* submit(request) with no service: enters _submit_simulated and reaches
\* `async with self._lock`
submit_called(c) ==
    /\ calls[c].at = "new"
    /\ calls' = [calls EXCEPT ![c].at = "acquire"]
    /\ UNCHANGED <<id_counter, lock, acquired, nonrouter>>

\* `async with self._lock`: entered when the lock is free
lock_acquire(c) ==
    /\ calls[c].at = "acquire"
    /\ LockFree
    /\ lock' = c
    /\ acquired' = Append(acquired, c)
    /\ calls' = [calls EXCEPT ![c].at = "increment"]
    /\ UNCHANGED <<id_counter, nonrouter>>

\* self._id_counter += 1
increment(c) ==
    /\ calls[c].at = "increment"
    /\ id_counter' = id_counter + 1
    /\ calls' = [calls EXCEPT ![c].at = "format"]
    /\ UNCHANGED <<lock, acquired, nonrouter>>

\* order_id = f'sim-{self._id_counter}'
format_order_id(c) ==
    /\ calls[c].at = "format"
    /\ calls' = [calls EXCEPT ![c] = Call("release", id_counter)]
    /\ UNCHANGED <<id_counter, lock, acquired, nonrouter>>

\* the end of the `async with` block
lock_release(c) ==
    /\ calls[c].at = "release"
    /\ lock' = ""
    /\ calls' = [calls EXCEPT ![c].at = "result"]
    /\ UNCHANGED <<id_counter, acquired, nonrouter>>

\* return OrderResult(order_id=order_id, ...)
submit_returns(c) ==
    /\ calls[c].at = "result"
    /\ calls' = [calls EXCEPT ![c].at = "returned"]
    /\ UNCHANGED <<id_counter, lock, acquired, nonrouter>>

SubmitCalled == \E c \in Callers : submit_called(c)
LockAcquire == \E c \in Callers : lock_acquire(c)
Increment == \E c \in Callers : increment(c)
FormatOrderId == \E c \in Callers : format_order_id(c)
LockRelease == \E c \in Callers : lock_release(c)
SubmitReturned == \E c \in Callers : submit_returns(c)

NextSubmit ==
    SubmitCalled \/ LockAcquire \/ Increment \/ FormatOrderId \/ LockRelease
        \/ SubmitReturned

SpecSubmit == InitSubmit /\ [][NextSubmit]_vars

\* the calls that have returned their OrderResult
ReturnedCalls == {c \in DOMAIN calls : calls[c].at = "returned"}

\* C25: when the live stream delivers a message that lacks a required field,
\* the loop continues: the stream task lives on, ready to turn the messages
\* that follow into ticks for the tick handler.
C25_MalformedMessageIsSkipped ==
    [][ (~ malformed /\ malformed') => (Streaming' /\ RunnerReady') ]_vars

\* C23: for any interleaving of concurrent submit calls on the simulated
\* backend, the order ids returned are pairwise distinct and strictly
\* increasing in the order in which the calls acquired the lock: the i-th
\* call to acquire it returns sim-i, with no gap and no repeat.
C23_OrderIdsFollowLockOrder ==
    /\ \A c, d \in ReturnedCalls : c # d => calls[c].order_id # calls[d].order_id
    /\ \A i \in 1..Len(acquired) :
          acquired[i] \in ReturnedCalls => calls[acquired[i]].order_id = i
    /\ \A i, j \in 1..Len(acquired) :
          (i < j /\ acquired[i] \in ReturnedCalls /\ acquired[j] \in ReturnedCalls)
          => calls[acquired[i]].order_id < calls[acquired[j]].order_id

\* all three calls have returned; c3 took the lock first, then c1, then c2,
\* and the ids follow that order
C23_Witness ==
    /\ acquired = <<"c3", "c1", "c2">>
    /\ ReturnedCalls = Callers
    /\ calls["c3"].order_id = 1 /\ calls["c1"].order_id = 2
    /\ calls["c2"].order_id = 3

----------------------------------------------------------------------------
(* A strategy object on its own: strategies/base_strategy.py and the three *)
(* shipped strategies.  The thresholds 0.002, 0.01, 1e-6 and 1.5 are the   *)
(* exact rationals of their decimal texts.                                 *)

\* number of prices per symbol handed to generate_signals in one session
MaxSeen == 3

Signal(symbol, side, quantity, confidence) ==
    [symbol |-> symbol, side |-> side, quantity |-> quantity,
     confidence |-> confidence]

Payload(symbol, price) == [symbol |-> symbol, price |-> price]

RECURSIVE Total(_)
Total(history) ==
    IF history = <<>> THEN Q(0) ELSE RAdd(Head(history), Total(Tail(history)))

\* statistics.mean of a non-empty history
mean(history) == RDiv(Total(history), Q(Len(history)))

\* deque(maxlen=window).append(price): the oldest price falls out of a full
\* deque
Appended(history, price, window) ==
    LET h == Append(history, price)
    IN  IF Len(h) > window THEN Tail(h) ELSE h

\* self._prices.setdefault(symbol, deque(maxlen=self.window))
HistoryOf(st, symbol) ==
    IF symbol \in DOMAIN st._prices THEN st._prices[symbol] ELSE <<>>

\* a call on the strategy: the object afterwards and what was returned
Outcome(st, result) == [strategy |-> st, result |-> result]

Exceeds_OrEqual(x, bound) == RLe(bound, x)

\* x > bound
Exceeds(x, bound) == RLt(bound, x)

MomentumStrategy(window, threshold) ==
    [kind |-> "momentum", window |-> window, threshold |-> threshold,
     zscore |-> Q(0), levels |-> 0, spacing |-> Q(0),
     _is_running |-> FALSE, _prices |-> EmptyMap, _anchors |-> EmptyMap]

MeanReversionStrategy(window, zscore) ==
    [kind |-> "mean_reversion", window |-> window, threshold |-> Q(0),
     zscore |-> zscore, levels |-> 0, spacing |-> Q(0),
     _is_running |-> FALSE, _prices |-> EmptyMap, _anchors |-> EmptyMap]

GridStrategy(levels, spacing) ==
    [kind |-> "grid", window |-> 0, threshold |-> Q(0),
     zscore |-> Q(0), levels |-> levels, spacing |-> spacing,
     _is_running |-> FALSE, _prices |-> EmptyMap, _anchors |-> EmptyMap]

\* MomentumStrategy.generate_signals; a mean of 0 raises ZeroDivisionError
MomentumStrategy_generate_signals(st, payload) ==
    LET symbol  == payload.symbol
        price   == payload.price
        history == Appended(HistoryOf(st, symbol), price, st.window)
        after   == [st EXCEPT !._prices = (symbol :> history) @@ @]
    IN  IF Len(history) < st.window THEN Outcome(after, Returned(<<>>))
        ELSE LET avg == mean(history)
             IN  IF avg = Q(0) THEN Outcome(after, RaisedInOnData)
                 ELSE LET delta == RDiv(RSub(price, avg), avg)
                      IN  IF Exceeds(delta, st.threshold)
                          THEN Outcome(after,
                                   Returned(<<Signal(symbol, "BUY", 1, delta)>>))
                          ELSE IF RLt(delta, RSub(Q(0), st.threshold))
                          THEN Outcome(after,
                                   Returned(<<Signal(symbol, "SELL", 1,
                                                     RSub(Q(0), delta))>>))
                          ELSE Outcome(after, Returned(<<>>))

\* max(a, b) of two floats
RMax(a, b) == IF RLt(a, b) THEN b ELSE a

\* MeanReversionStrategy.generate_signals
MeanReversionStrategy_generate_signals(st, payload) ==
    LET symbol  == payload.symbol
        price   == payload.price
        history == Appended(HistoryOf(st, symbol), price, st.window)
        after   == [st EXCEPT !._prices = (symbol :> history) @@ @]
    IN  IF Len(history) < st.window THEN Outcome(after, Returned(<<>>))
        ELSE LET avg       == mean(history)
                 deviation == RMax(RMul(avg, Rat(1, 100)), Rat(1, 1000000))
                 z_value   == RDiv(RSub(price, avg), deviation)
             IN  IF RLt(st.zscore, z_value)
                 THEN Outcome(after,
                          Returned(<<Signal(symbol, "SELL", 1, z_value)>>))
                 ELSE IF RLt(z_value, RSub(Q(0), st.zscore))
                 THEN Outcome(after,
                          Returned(<<Signal(symbol, "BUY", 1,
                                            RSub(Q(0), z_value))>>))
                 ELSE Outcome(after, Returned(<<>>))

\* the loop with a slip: a signal is emitted and the anchor stays
GridLevels_KeepsAnchor(st, payload, anchor, level) ==
    LET buy_level  == RMul(anchor, RSub(Q(1), st.spacing))
        sell_level == RMul(anchor, RAdd(Q(1), st.spacing))
    IN  IF RLe(payload.price, buy_level)
        THEN Outcome(st, Returned(<<Signal(payload.symbol, "BUY", 1, Q(1))>>))
        ELSE IF RLe(sell_level, payload.price)
        THEN Outcome(st, Returned(<<Signal(payload.symbol, "SELL", 1, Q(1))>>))
        ELSE Outcome(st, Returned(<<>>))

\* the loop of GridStrategy.generate_signals from `level` on: the first level
\* the price has reached gives one signal and moves the anchor to the price
RECURSIVE GridLevels(_, _, _, _)
GridLevels(st, payload, anchor, level) ==
    LET symbol     == payload.symbol
        price      == payload.price
        buy_level  == RMul(anchor, RSub(Q(1), RMul(st.spacing, Q(level))))
        sell_level == RMul(anchor, RAdd(Q(1), RMul(st.spacing, Q(level))))
        moved      == [st EXCEPT !._anchors = (symbol :> price) @@ @]
    IN  IF level > st.levels THEN Outcome(st, Returned(<<>>))
        ELSE IF RLe(price, buy_level)
        THEN Outcome(moved, Returned(<<Signal(symbol, "BUY", 1, Q(1))>>))
        ELSE IF RLe(sell_level, price)
        THEN Outcome(moved, Returned(<<Signal(symbol, "SELL", 1, Q(1))>>))
        ELSE GridLevels(st, payload, anchor, level + 1)

\* GridStrategy.generate_signals
GridStrategy_generate_signals(st, payload) ==
    LET symbol == payload.symbol
        anchor == IF symbol \in DOMAIN st._anchors THEN st._anchors[symbol]
                  ELSE payload.price
        after  == [st EXCEPT !._anchors = (symbol :> anchor) @@ @]
    IN  GridLevels(after, payload, anchor, 1)

\* generate_signals of the strategy's class
generate_signals(st, payload) ==
    IF st.kind = "momentum" THEN MomentumStrategy_generate_signals(st, payload)
    ELSE IF st.kind = "mean_reversion"
    THEN MeanReversionStrategy_generate_signals(st, payload)
    ELSE GridStrategy_generate_signals(st, payload)

BaseStrategy_on_data_Unguarded(st, payload) == generate_signals(st, payload)

\* BaseStrategy.on_data
BaseStrategy_on_data(st, payload) ==
    IF ~ st._is_running THEN Outcome(st, Returned(<<>>))
    ELSE generate_signals(st, payload)

\* the strategies exercised: windows of 2 prices, the shipped thresholds,
\* and a momentum threshold that a step from 100 to 101 meets exactly
ShippedStrategies ==
    { MomentumStrategy(2, Rat(1, 500)), MomentumStrategy(2, Rat(1, 201)),
      MeanReversionStrategy(2, Rat(3, 2)), GridStrategy(5, Rat(1, 100)) }

StrategyPrices == {Q(100), Q(101), Q(104)}

Payloads == {Payload(symbol, price) : symbol \in Symbols, price \in StrategyPrices}

StrategyCall(op, payload, result) ==
    [op |-> op, payload |-> payload, result |-> result]

NoPayload == Payload("", Q(0))

SeenOf(symbol) == IF symbol \in DOMAIN seen THEN seen[symbol] ELSE <<>>

InitStrategy ==
    /\ NoTrading
    /\ NoSubmits
    /\ NoBacktest
    /\ NoService
    /\ strategy \in ShippedStrategies
    /\ strategy_call = StrategyCall("none", NoPayload, Returned(<<>>))
    /\ lifecycle = "none"
    /\ seen = EmptyMap

\* everything but the strategy object
nonstrategy == <<pvars, rvars, evars, fills, last, close_called, malformed,
                 svars, bvars, xvars>>

\* await strategy.on_start()
call_on_start ==
    /\ strategy' = [strategy EXCEPT !._is_running = TRUE]
    /\ strategy_call' = StrategyCall("on_start", NoPayload, Returned(<<>>))
    /\ lifecycle' = "on_start"
    /\ UNCHANGED <<seen, nonstrategy>>

\* await strategy.on_stop()
call_on_stop ==
    /\ strategy' = [strategy EXCEPT !._is_running = FALSE]
    /\ strategy_call' = StrategyCall("on_stop", NoPayload, Returned(<<>>))
    /\ lifecycle' = "on_stop"
    /\ UNCHANGED <<seen, nonstrategy>>

\* await strategy.on_data(payload)
call_on_data(payload) ==
    LET outcome == BaseStrategy_on_data(strategy, payload)
    IN  /\ strategy._is_running => Len(SeenOf(payload.symbol)) < MaxSeen
        /\ strategy' = outcome.strategy
        /\ strategy_call' = StrategyCall("on_data", payload, outcome.result)
        /\ seen' = IF strategy._is_running
                   THEN (payload.symbol :> Append(SeenOf(payload.symbol),
                                                  payload.price)) @@ seen
                   ELSE seen
        /\ UNCHANGED <<lifecycle, nonstrategy>>

CallOnData == \E payload \in Payloads : call_on_data(payload)

NextStrategy == call_on_start \/ call_on_stop \/ CallOnData

SpecStrategy == InitStrategy /\ [][NextStrategy]_vars

\* C24: on_data of a strategy that is not running (before its first
\* on_start, and after an on_stop until the next on_start) returns an empty
\* list and leaves the strategy's state, price windows and anchors included,
\* as it was; the running flag is true exactly when the last of on_start and
\* on_stop to be called was on_start.
C24_NotRunningIsInert ==
    [][ /\ strategy._is_running <=> lifecycle = "on_start"
        /\ strategy'._is_running <=> lifecycle' = "on_start"
        /\ (strategy_call'.op = "on_data" /\ lifecycle # "on_start")
              => /\ strategy_call'.result = Returned(<<>>)
                 /\ strategy' = strategy
      ]_vars

\* a momentum strategy was stopped with the window <<100, 100>> for BTCUSDT
\* and then given the price 104, which would be a BUY if it were running
C24_Witness ==
    /\ strategy.kind = "momentum"
    /\ lifecycle = "on_stop"
    /\ HistoryOf(strategy, "BTCUSDT") = <<Q(100), Q(100)>>
    /\ strategy_call = StrategyCall("on_data", Payload("BTCUSDT", Q(104)),
                                    Returned(<<>>))

\* the signals the last call on the strategy returned
Emitted ==
    {strategy_call.result.signals[i] :
        i \in 1..Len(strategy_call.result.signals)}

\* C29: every Signal a shipped strategy emits has quantity > 0, a side that
\* is BUY or SELL, and a confidence in the closed interval [0, 1].
C29_SignalsAreWellFormed ==
    \A signal \in Emitted :
        /\ signal.quantity > 0
        /\ signal.side \in {"BUY", "SELL"}
        /\ RLe(Q(0), signal.confidence) /\ RLe(signal.confidence, Q(1))

\* the step of the strategy is a call of on_data that reached
\* generate_signals
Generates == strategy_call'.op = "on_data" /\ strategy._is_running

\* what C30 states of a momentum strategy for the prices `all` of one symbol,
\* the last being the current one: the sides of the signals to emit
MomentumSides(all, window, threshold) ==
    IF Len(all) < window THEN <<>>
    ELSE LET price == all[Len(all)]
             m     == mean(SubSeq(all, Len(all) - window + 1, Len(all)))
             d     == RDiv(RSub(price, m), m)
         IN  IF RLt(threshold, d) THEN <<"BUY">>
             ELSE IF RLt(d, RSub(Q(0), threshold)) THEN <<"SELL">>
             ELSE <<>>

\* C30: the momentum strategy emits nothing for a symbol until it has seen
\* `window` prices of that symbol; from then on, for each tick, exactly one
\* BUY if (price - mean) / mean > threshold, exactly one SELL if it is
\* < -threshold, nothing otherwise, the mean being over the last `window`
\* prices of that symbol with the current one; the prices of other symbols
\* play no part.
C30_MomentumRule ==
    [][ (Generates /\ strategy.kind = "momentum")
        => LET symbol == strategy_call'.payload.symbol
               out    == strategy_call'.result
               sides  == MomentumSides(seen'[symbol], strategy.window,
                                       strategy.threshold)
           IN  /\ ~ out.raised
               /\ Len(out.signals) = Len(sides)
               /\ \A i \in 1..Len(sides) :
                     /\ out.signals[i].side = sides[i]
                     /\ out.signals[i].symbol = symbol
      ]_vars

\* the third BTCUSDT price, 101 after 104 and 100, with an ETHUSDT price in
\* between: the window has slid, the mean is over 100 and 101, and the
\* strategy emitted a BUY
C30_Witness ==
    /\ strategy.kind = "momentum" /\ strategy.threshold = Rat(1, 500)
    /\ SeenOf("BTCUSDT") = <<Q(104), Q(100), Q(101)>>
    /\ SeenOf("ETHUSDT") = <<Q(104)>>
    /\ strategy_call.op = "on_data"
    /\ strategy_call.payload = Payload("BTCUSDT", Q(101))
    /\ Len(strategy_call.result.signals) = 1
    /\ strategy_call.result.signals[1].side = "BUY"

----------------------------------------------------------------------------
(* Backtest harness: backtesting/backtest_engine.py, on one strategy ("s1")*)
(* with a portfolio, a risk gate and a simulated router of its own; then   *)
(* a second session in which the execution loop gets the same prices as    *)
(* ticks, on a portfolio, limits and router built the same way.            *)

BacktestSymbol == "BTCUSDT"

\* the risk limit under which a notional above 3 is refused
TightLimits == [TestLimits EXCEPT !.max_position_pct = Rat(3, 10)]

\* what the strategy may answer to a candle: as on the live loop, or a
\* signal that is refused followed by one that is not
BacktestSignalLists ==
    SignalLists \cup {<<[symbol |-> "ETHUSDT", side |-> "SELL", quantity |-> 1],
                        [symbol |-> "BTCUSDT", side |-> "BUY", quantity |-> 1]>>}

\* a candle, with the strategy's answer to it
Candles == [close : Prices, signals : BacktestSignalLists]

CandleLists == UNION {[1..n -> Candles] : n \in 0..MaxTicks}

InitBacktest ==
    /\ cash = Q(10)
    /\ positions = EmptyMap
    /\ run = [s \in Symbols |-> NoRun]
    /\ starting_equity = None
    /\ limits \in {TestLimits, TightLimits}
    /\ backend = Simulated
    /\ strategies = <<"s1">>
    /\ id_counter = 0
    /\ marks = EmptyMap
    /\ is_running = [s \in StrategyIds |-> FALSE]
    /\ phase = "new"
    /\ pc = "idle"
    /\ tick = NoTick
    /\ done = <<>>
    /\ on_error_calls = NoCalls
    /\ signals = <<>>
    /\ request = NoRequest
    /\ ticks = 0
    /\ exec = NoExec
    /\ close_called = FALSE
    /\ malformed = FALSE
    /\ fills = 0
    /\ last = NoCall
    /\ NoSubmits
    /\ NoStrategy
    /\ NoService
    /\ bt = [pc |-> "new", symbol |-> BacktestSymbol, index |-> 0]
    /\ candles \in CandleLists
    /\ equity_curve = <<>>
    /\ executed = <<>>
    /\ bt_orders = <<>>
    /\ bt_trace = <<>>

\* what run leaves alone
nonbacktest == <<limits, backend, strategies, phase, pc, done, on_error_calls,
                 request, ticks, exec, fills, last, close_called, malformed,
                 svars, tvars, candles, xvars>>

InitialCurve_WithStart(starting) == <<starting>>

\* equity_curve: List[float] = []
InitialCurve(starting) == <<>>

\* run up to its loop: on_start, the empty marks, equity_curve and executed,
\* the day anchor at the starting equity
run_begins ==
    /\ bt.pc = "new"
    /\ is_running' = [is_running EXCEPT !["s1"] = TRUE]
    /\ marks' = EmptyMap
    /\ equity_curve' = InitialCurve(mark_to_market(EmptyMap))
    /\ executed' = <<>>
    /\ reset_day(mark_to_market(EmptyMap))
    /\ bt' = [bt EXCEPT !.pc = "candles"]
    /\ UNCHANGED <<pvars, id_counter, tick, signals, bt_orders, bt_trace,
                   nonbacktest>>

\* the loop takes the next candle: its close is the mark of the symbol, the
\* strategy's generate_signals is awaited, the equity is taken
candle_begins ==
    /\ bt.pc = "candles"
    /\ bt.index < Len(candles)
    /\ LET candle == candles[bt.index + 1]
       IN  /\ marks' = (bt.symbol :> candle.close) @@ marks
           /\ signals' = candle.signals
           /\ tick' = [symbol |-> bt.symbol, price |-> candle.close,
                       equity |-> mark_to_market(marks')]
    /\ bt' = [bt EXCEPT !.pc = "signals", !.index = @ + 1]
    /\ UNCHANGED <<pvars, starting_equity, id_counter, is_running, equity_curve,
                   executed, bt_orders, bt_trace, nonbacktest>>

AfterRejected_Break(rest) == <<>>

\* `continue`: the signals still to go after one that was not allowed
AfterRejected(rest) == rest

\* the loop over the signals of a candle: the next one is validated;
\* allowed, BacktestEngine._execute_signal submits its OrderRequest at the
\* candle's price and books the fill, and the signal joins executed
candle_signal ==
    /\ bt.pc = "signals"
    /\ signals # <<>>
    /\ LET signal     == Head(signals)
           mark_price == tick.price
           verdict    == validate_signal(signal, marks, tick.equity)
           order      == OrderRequest(signal.symbol, signal.side,
                                      signal.quantity, Some(mark_price))
       IN  IF verdict.raised
           THEN /\ bt' = [bt EXCEPT !.pc = "raised"]
                /\ UNCHANGED <<pvars, id_counter, signals, executed, bt_orders>>
           ELSE IF ~ verdict.allowed
           THEN /\ signals' = AfterRejected(Tail(signals))
                /\ UNCHANGED <<pvars, id_counter, executed, bt_orders, bt>>
           ELSE \E result \in submit(order) :
                  LET notional == Notional_of(result, mark_price)
                  IN  /\ id_counter' = id_counter + 1
                      /\ IF signal.side = "BUY"
                         THEN /\ update_cash(RSub(Q(0), notional))
                              /\ update_position(signal.symbol,
                                                 result.filled_quantity,
                                                 mark_price)
                         ELSE /\ update_cash(notional)
                              /\ update_position(signal.symbol,
                                                 0 - result.filled_quantity,
                                                 mark_price)
                      /\ executed' = Append(executed, signal)
                      /\ bt_orders' = Append(bt_orders,
                                             [request |-> order, cash |-> cash',
                                              positions |-> positions'])
                      /\ signals' = Tail(signals)
                      /\ UNCHANGED bt
    /\ UNCHANGED <<starting_equity, marks, is_running, tick, equity_curve,
                   bt_trace, nonbacktest>>

\* the signals of the candle are done:
\* equity_curve.append(self._portfolio.mark_to_market(marks))
candle_ends ==
    /\ bt.pc = "signals"
    /\ signals = <<>>
    /\ equity_curve' = Append(equity_curve, mark_to_market(marks))
    /\ bt_trace' = Append(bt_trace, [cash |-> cash, positions |-> positions,
                                     orders |-> id_counter])
    /\ bt' = [bt EXCEPT !.pc = "candles"]
    /\ UNCHANGED <<pvars, starting_equity, id_counter, marks, is_running, tick,
                   signals, executed, bt_orders, nonbacktest>>

\* the candles are done: on_stop, and the BacktestResult is returned
run_returns ==
    /\ bt.pc = "candles"
    /\ bt.index = Len(candles)
    /\ is_running' = [is_running EXCEPT !["s1"] = FALSE]
    /\ bt' = [bt EXCEPT !.pc = "returned"]
    /\ UNCHANGED <<pvars, starting_equity, id_counter, marks, tick, signals,
                   equity_curve, executed, bt_orders, bt_trace, nonbacktest>>

\* the second session: a portfolio, a risk gate, a simulated router and an
\* engine with the same strategy are built as they were for the backtest
live_session ==
    /\ bt.pc = "returned"
    /\ cash' = Q(10)
    /\ positions' = EmptyMap
    /\ run' = [s \in Symbols |-> NoRun]
    /\ starting_equity' = None
    /\ id_counter' = 0
    /\ marks' = EmptyMap
    /\ tick' = NoTick
    /\ bt' = [bt EXCEPT !.pc = "live"]
    /\ UNCHANGED <<is_running, signals, equity_curve, executed, bt_orders,
                   bt_trace, nonbacktest>>

\* the engine of the second session is the one that runs
Live == bt.pc = "live"

\* the stream delivers the close of the next candle as a tick
LiveTick ==
    /\ Live
    /\ ticks < Len(candles)
    /\ _handle_tick(bt.symbol, candles[ticks + 1].close)

\* the strategy answers the tick as it answered the candle
LiveOnData ==
    /\ Live
    /\ ticks >= 1
    /\ on_data("s1", Returned(candles[ticks].signals))

NextBacktest ==
    \/ run_begins
    \/ candle_begins
    \/ candle_signal
    \/ candle_ends
    \/ run_returns
    \/ live_session
    \/ Live /\ start_reset_day
    \/ Live /\ on_start("s1")
    \/ Live /\ subscribe
    \/ Live /\ start_live_stream
    \/ LiveTick
    \/ LiveOnData
    \/ Live /\ gather_returns
    \/ Live /\ next_signal
    \/ Live /\ SubmitReturns

SpecBacktest == InitBacktest /\ [][NextBacktest]_vars

\* C26: for every candle sequence, the equity_curve that run returns has as
\* many samples as there were candles; while run is between two candles it
\* has one sample for each candle taken so far.
C26_CurveLengthIsCandleCount ==
    /\ bt.pc \in {"returned", "live"} => Len(equity_curve) = Len(candles)
    /\ bt.pc = "candles" => Len(equity_curve) = bt.index

\* run has returned after two candles, with an order executed
C26_Witness ==
    /\ bt.pc = "returned"
    /\ Len(candles) = 2
    /\ Len(equity_curve) = 2
    /\ executed # <<>>

\* C27: the first sample of equity_curve is the equity taken before any
\* candle is processed (the starting equity, which is also the day anchor),
\* and one further sample is appended for each candle: the returned curve
\* has one sample more than there were candles.
C27_CurveStartsAtStartingEquity ==
    bt.pc = "returned"
    => /\ Len(equity_curve) = Len(candles) + 1
       /\ equity_curve[1] = starting_equity.v

\* C28: the execution loop fed the closes as ticks, from the same initial
\* portfolio, limits and simulated router and with the same answers of the
\* strategy, submits the same orders in the same order as the backtest and
\* holds the same cash and positions after every order and after every tick
\* as the backtest after that order and that candle.
C28_LiveMatchesBacktest ==
    Live =>
      /\ id_counter <= Len(bt_orders)
      /\ id_counter >= 1 => /\ cash = bt_orders[id_counter].cash
                            /\ positions = bt_orders[id_counter].positions
      /\ pc = "submit" => /\ id_counter < Len(bt_orders)
                          /\ request = bt_orders[id_counter + 1].request
      /\ (Streaming /\ pc = "idle" /\ ticks >= 1)
            => /\ ticks <= Len(bt_trace)
               /\ cash = bt_trace[ticks].cash
               /\ positions = bt_trace[ticks].positions
               /\ id_counter = bt_trace[ticks].orders

\* the loop has handled the second tick, with two orders filled and one
\* signal refused on the way, as in the backtest
C28_Witness ==
    /\ Live /\ Streaming /\ pc = "idle"
    /\ ticks = 2 /\ Len(candles) = 2
    /\ id_counter = 2 /\ Len(bt_orders) = 2
    /\ Len(candles[1].signals) + Len(candles[2].signals) = 3

\* what C31 states of a grid strategy for the prices `all` of one symbol, in
\* the order they came: the anchor after the last of them and the sides of
\* the signals emitted for it
RECURSIVE GridRule(_, _, _)
GridRule(all, levels, spacing) ==
    IF Len(all) = 1 THEN [anchor |-> all[1], sides |-> <<>>]
    ELSE LET anchor == GridRule(SubSeq(all, 1, Len(all) - 1), levels,
                                spacing).anchor
             price  == all[Len(all)]
             fallen == \E k \in 1..levels :
                          RLe(price, RMul(anchor, RSub(Q(1), RMul(spacing, Q(k)))))
             risen  == \E k \in 1..levels :
                          RLe(RMul(anchor, RAdd(Q(1), RMul(spacing, Q(k)))), price)
         IN  IF fallen THEN [anchor |-> price, sides |-> <<"BUY">>]
             ELSE IF risen THEN [anchor |-> price, sides |-> <<"SELL">>]
             ELSE [anchor |-> anchor, sides |-> <<>>]

\* C31: the grid strategy anchors a symbol at the price of its first tick and
\* emits nothing for it; on a later tick it emits one BUY when the price is
\* at or below a buy level anchor * (1 - spacing * k), one SELL when it is at
\* or above a sell level anchor * (1 + spacing * k), for some k in 1..levels,
\* and re-anchors at that price; when no level is reached it emits nothing
\* and keeps the anchor.
C31_GridRule ==
    [][ (Generates /\ strategy.kind = "grid")
        => LET symbol == strategy_call'.payload.symbol
               out    == strategy_call'.result
               rule   == GridRule(seen'[symbol], strategy.levels,
                                  strategy.spacing)
           IN  /\ ~ out.raised
               /\ Len(out.signals) = Len(rule.sides)
               /\ \A i \in 1..Len(rule.sides) :
                     /\ out.signals[i].side = rule.sides[i]
                     /\ out.signals[i].symbol = symbol
               /\ strategy'._anchors[symbol] = rule.anchor
               /\ \A other \in DOMAIN strategy._anchors \ {symbol} :
                     strategy'._anchors[other] = strategy._anchors[other]
      ]_vars

\* BTCUSDT came at 101, rose to 104 (a SELL, anchor 104) and fell to 100: the
\* strategy emitted a BUY and the anchor is 100; ETHUSDT keeps its anchor
C31_Witness ==
    /\ strategy.kind = "grid"
    /\ SeenOf("BTCUSDT") = <<Q(101), Q(104), Q(100)>>
    /\ SeenOf("ETHUSDT") = <<Q(104)>>
    /\ strategy_call.op = "on_data"
    /\ strategy_call.payload = Payload("BTCUSDT", Q(100))
    /\ Len(strategy_call.result.signals) = 1
    /\ strategy_call.result.signals[1].side = "BUY"
    /\ strategy._anchors["BTCUSDT"] = Q(100)
    /\ strategy._anchors["ETHUSDT"] = Q(104)

\* the prices a grid strategy is compared on: falls and rises of less than
\* one level, of one level and of several, and a price of 0 and a negative one
GridPrices == {Q(0 - 100), Q(0), Q(97), Q(100), Q(101), Q(104)}

GridPriceLists == UNION {[1..n -> GridPrices] : n \in 1..3}

\* what a started grid strategy answers to the prices of one symbol, one by
\* one, and the anchors it is left with
RECURSIVE GridRun(_, _)
GridRun(st, prices) ==
    IF prices = <<>> THEN [answers |-> <<>>, anchors |-> st._anchors]
    ELSE LET outcome == BaseStrategy_on_data(st, Payload(BacktestSymbol,
                                                         Head(prices)))
             rest    == GridRun(outcome.strategy, Tail(prices))
         IN  [answers |-> <<outcome.result>> \o rest.answers,
              anchors |-> rest.anchors]

Started(st) == [st EXCEPT !._is_running = TRUE]

\* C39: what a grid strategy emits, and the anchors it keeps, depend on
\* `levels`: for the grid strategy as it stands, some other value of `levels`
\* (both at least 1) and some list of further prices give different answers
\* or different anchors.
C39_LevelsMatter ==
    strategy.kind = "grid"
    => \E levels \in (1..5) \ {strategy.levels}, prices \in GridPriceLists :
          GridRun(Started(strategy), prices)
              # GridRun(Started([strategy EXCEPT !.levels = levels]), prices)

\* C38: validate_signal returns an (allowed, reason) pair and never raises,
\* for every signal, mark map, equity and day anchor, an anchor of 0 included.
C38_ValidateNeverRaises ==
    \A signal \in Signals, m \in MarkMaps, e \in Equities :
        ~ validate_signal(signal, m, e).raised

----------------------------------------------------------------------------
(* Further claims on the execution loop, under Spec *)

\* the step in which the loop hands an OrderRequest to the router
Submits == pc = "signals" /\ pc' = "submit"

\* the verdict of the risk gate on the signal the loop is at
HeadVerdict == validate_signal(Head(signals), marks, tick.equity)

RECURSIVE IsSuffix(_, _)
IsSuffix(short, long) ==
    \/ short = long
    \/ long # <<>> /\ IsSuffix(short, Tail(long))

\* C34: every OrderRequest the loop submits is for one signal of the tick
\* being handled that validate_signal allowed, carries its symbol, side and
\* quantity, and is submitted once: the signal leaves the queue when its
\* submission ends, and the queue of a tick only shrinks.  A signal the gate
\* refuses causes no submission and no change of the portfolio.
C34_OneSubmissionPerApprovedSignal ==
    [][ /\ Submits
              => /\ signals # <<>> /\ signals' = signals
                 /\ ~ HeadVerdict.raised /\ HeadVerdict.allowed
                 /\ request'.symbol = Head(signals).symbol
                 /\ request'.side = Head(signals).side
                 /\ request'.quantity = Head(signals).quantity
        /\ (request' # request)
              => \/ Submits /\ request = NoRequest
                 \/ pc = "submit" /\ request' = NoRequest
        /\ Books => signals' = Tail(signals) /\ request' = NoRequest
        /\ (pc # "gather") => IsSuffix(signals', signals)
        /\ Gathers => signals' = SignalsFrom(1)
        /\ (pc = "signals" /\ signals # <<>> /\ ~ HeadVerdict.allowed)
              => /\ pc' # "submit"
                 /\ UNCHANGED <<cash, positions, request, id_counter>>
      ]_vars

\* the strategy answered the tick with a BUY and a SELL: the BUY has been
\* filled and the SELL of 2 is at the router
C34_Witness ==
    /\ pc = "submit"
    /\ ticks = 1
    /\ exec.set /\ exec.side = "BUY"
    /\ Len(signals) = 1
    /\ request.side = "SELL" /\ request.quantity = 2
    /\ request.symbol = "BTCUSDT"

\* C35: for every order the loop submits, the price the risk gate sized the
\* signal at, marks[signal.symbol], is the limit price of the OrderRequest
\* and the price booked into the position, also when the signal is for a
\* symbol other than that of the tick being handled.
C35_OnePricePerOrder ==
    [][ /\ Submits => request'.price = Some(marks[Head(signals).symbol])
        /\ Books => positions' = PositionsAfter(positions, exec'.symbol,
                                                SignedFill, marks[exec'.symbol])
      ]_vars

\* C36: the equity handed to validate_signal for a signal is the portfolio's
\* mark_to_market value at the moment of that validation, also for the
\* second and later signals of a tick, after the fills of earlier ones.
C36_EquityIsCurrentAtValidation ==
    (Streaming /\ pc = "signals" /\ signals # <<>>)
        => tick.equity = mark_to_market(marks)

\* the step books the simulated fill of a signal for the symbol of the tick
BooksOwnSymbol ==
    /\ Books
    /\ backend.kind = "simulated"
    /\ exec'.symbol = tick.symbol

\* C37: with the simulated router, booking the fill of a signal for the
\* tick's own symbol leaves the equity at the current marks as it was; the
\* equity of such an engine changes in no step but a tick or the fill of a
\* signal for another symbol.
C37_OwnSymbolFillKeepsEquity ==
    [][ LET before == EquityFrom(cash, DOMAIN positions, positions, marks)
            after  == EquityFrom(cash', DOMAIN positions', positions', marks')
        IN  /\ BooksOwnSymbol => after = before
            /\ (backend.kind = "simulated" /\ after # before)
                  => \/ ticks' = ticks + 1
                     \/ Books /\ exec'.symbol # tick.symbol
      ]_vars

\* on the second tick, BTCUSDT at 2 after BTCUSDT at 1, the simulated router
\* filled a SELL of 2 that flipped the position bought on the first tick
C37_Witness ==
    /\ backend.kind = "simulated"
    /\ ticks = 2 /\ tick.symbol = "BTCUSDT" /\ tick.price = Q(2)
    /\ exec.set /\ exec.symbol = "BTCUSDT" /\ exec.side = "SELL"
    /\ QuantityOf(positions, "BTCUSDT") = 0 - 1
    /\ tick.equity = mark_to_market(marks)

----------------------------------------------------------------------------
(* The exchange service, its lock, and stop():                             *)
(* exchanges/binance_service.py, data/websocket_client.py,                 *)
(* data/data_manager.py, execution/execution_engine.py.                    *)
(* Two coroutines share the event loop: the caller of the engine (start    *)
(* has returned; it may call connect() and then calls stop()) and the      *)
(* stream task that start_live_stream created.  A step runs a coroutine    *)
(* from one await that suspends to the next, as the event loop does; an    *)
(* `async with self._lock` on a free lock does not suspend.                *)

\* how main.py and the constructors hand out the BinanceService: to nobody
\* (simulated), the same object to the WebSocketClient and the OrderManager
\* (run_paper with credentials), or to the OrderManager alone
Wirings == {"simulated", "live", "live_router"}

\* BinanceService.__init__ in that wiring
BinanceService(wiring) ==
    [wiring |-> wiring, _client |-> FALSE, _socket_manager |-> FALSE,
     _lock |-> ""]

\* a coroutine suspended in the await `at` of method fn, called from `from`
Task(at, fn, from) == [at |-> at, fn |-> fn, from |-> from]

\* where a coroutine got to, and the service as it left it
Ran(task, svc) == [task |-> task, service |-> svc]

\* the end of an `async with self._lock` block
Release(svc) == [svc EXCEPT !._lock = ""]

\* the await at which WebSocketClient.stream waits for the next update:
\* the multiplex socket, or the sleep of _mock_stream
StreamAwait(svc) ==
    IF svc.wiring = "live" THEN Task("socket", "stream", "_runner")
                           ELSE Task("sleep", "_mock_stream", "stream")

\* `await self._service.client()` has returned to its caller, which runs on
\* to its next await: connect returns, _submit_live awaits create_order,
\* socket_manager stores the manager, leaves its lock block and returns to
\* stream, which awaits the socket
AfterClient(from, svc) ==
    CASE from = "connect" -> Ran(Task("idle", "", ""), svc)
      [] from = "_submit_live" ->
            Ran(Task("create_order", "_submit_live", "submit"), svc)
      [] from = "socket_manager" ->
            Ran(StreamAwait(svc), Release([svc EXCEPT !._socket_manager = TRUE]))

\* BinanceService.close, its second half: the client is closed if there is
\* one; then the lock is released and close, disconnect return
CloseClient(from, svc) ==
    IF svc._client THEN Ran(Task("close_connection", "close", from), svc)
                   ELSE Ran(Task("disconnected", "", ""), Release(svc))

RECURSIVE Enter(_, _, _, _), Body(_, _, _, _)
\* `async with self._lock:` of client, socket_manager or close, entered by
\* coroutine t: a free lock is taken at once, a held one is waited for,
\* whoever holds it (asyncio.Lock is not reentrant)
Enter(t, fn, from, svc) ==
    IF svc._lock = "" THEN Body(t, fn, from, [svc EXCEPT !._lock = t])
                      ELSE Ran(Task("lock", fn, from), svc)

\* the block under the lock, up to its first await that suspends
Body(t, fn, from, svc) ==
    CASE fn = "client" ->
            IF ~ svc._client THEN Ran(Task("create", "client", from), svc)
                             ELSE AfterClient(from, Release(svc))
      [] fn = "socket_manager" ->
            IF ~ svc._socket_manager
            THEN Enter(t, "client", "socket_manager", svc)
            ELSE Ran(StreamAwait(svc), Release(svc))
      [] fn = "close" ->
            IF svc._socket_manager
            THEN Ran(Task("close_manager", "close", from), svc)
            ELSE CloseClient(from, svc)

\* a cancelled task is not resumed: CancelledError is raised in it instead
Runnable(t) == t = "runner" => (~ stream_task.cancel /\ stream_task.outcome = "pending")

\* coroutine t ran to ran.task.  When disconnect() has returned,
\* stop_live_stream goes on in the same step: it cancels the stream task
\* and awaits it
Resume(t, ran) ==
    /\ service' = ran.service
    /\ IF ran.task.at = "disconnected"
       THEN /\ tasks' = [tasks EXCEPT ![t] = Task("await_task", "stop_live_stream", "stop")]
            /\ stream_task' = [stream_task EXCEPT !.cancel = TRUE]
       ELSE /\ tasks' = [tasks EXCEPT ![t] = ran.task]
            /\ UNCHANGED stream_task

nonservice == <<pvars, rvars, evars, fills, last, close_called, malformed,
                svars, tvars, bvars>>

\* start() has returned: the stream task is created and has not run yet
InitService ==
    /\ NoTrading
    /\ NoSubmits
    /\ NoStrategy
    /\ NoBacktest
    /\ service \in {BinanceService(w) : w \in Wirings}
    /\ tasks = [t \in {"caller", "runner"} |->
                   IF t = "caller" THEN Task("idle", "", "")
                                   ELSE Task("created", "_runner", "")]
    /\ stream_task = [cancel |-> FALSE, outcome |-> "pending"]
    /\ registered \in {<<>>, <<"s1">>, <<"s1", "s2">>}
    /\ on_stop_calls = <<>>

\* WebSocketClient.connect
connect ==
    /\ tasks["caller"].at = "idle"
    /\ service.wiring = "live"
    /\ Resume("caller", Enter("caller", "client", "connect", service))
    /\ UNCHANGED <<nonservice, registered, on_stop_calls>>

\* ExecutionEngine.stop is called: DataManager.stop_live_stream awaits
\* WebSocketClient.disconnect, which closes the service if it has one
stop_called ==
    /\ tasks["caller"].at = "idle"
    /\ Resume("caller",
              IF service.wiring = "live"
              THEN Enter("caller", "close", "disconnect", service)
              ELSE Ran(Task("disconnected", "", ""), service))
    /\ UNCHANGED <<nonservice, registered, on_stop_calls>>

\* the lock was released: the coroutine waiting for it takes it
lock_granted(t) ==
    /\ tasks[t].at = "lock"
    /\ service._lock = ""
    /\ Runnable(t)
    /\ Resume(t, Body(t, tasks[t].fn, tasks[t].from, [service EXCEPT !._lock = t]))
    /\ UNCHANGED <<nonservice, registered, on_stop_calls>>

\* an await on the exchange is answered: AsyncClient.create,
\* BinanceSocketManager.close, close_connection, create_order (after which
\* the tick handler is done and the stream awaits the next update)
io_completes(t) ==
    /\ Runnable(t)
    /\ LET at == tasks[t].at
           from == tasks[t].from
       IN  /\ at \in {"create", "close_manager", "close_connection", "create_order"}
           /\ Resume(t,
                CASE at = "create" ->
                        AfterClient(from, Release([service EXCEPT !._client = TRUE]))
                  [] at = "close_manager" ->
                        CloseClient(from, [service EXCEPT !._socket_manager = FALSE])
                  [] at = "close_connection" ->
                        Ran(Task("disconnected", "", ""),
                            Release([service EXCEPT !._client = FALSE]))
                  [] at = "create_order" -> Ran(StreamAwait(service), service))
    /\ UNCHANGED <<nonservice, registered, on_stop_calls>>

\* the exchange answers the stream task with an error (AsyncClient.create
\* raises, _submit_live raises RuntimeError): the lock block is left, the
\* task dies of the exception
io_raises ==
    /\ Runnable("runner")
    /\ tasks["runner"].at \in {"create", "create_order"}
    /\ tasks' = [tasks EXCEPT !["runner"] = Task("ended", "", "")]
    /\ stream_task' = [stream_task EXCEPT !.outcome = "raised"]
    /\ service' = IF service._lock = "runner" THEN Release(service) ELSE service
    /\ UNCHANGED <<nonservice, registered, on_stop_calls>>

\* the stream task runs for the first time: _runner iterates
\* self._ws_client.stream(symbols)
runner_starts ==
    /\ Runnable("runner")
    /\ tasks["runner"].at = "created"
    /\ Resume("runner",
              IF service.wiring = "live"
              THEN Enter("runner", "socket_manager", "stream", service)
              ELSE Ran(StreamAwait(service), service))
    /\ UNCHANGED <<nonservice, registered, on_stop_calls>>

\* the stream yields an update: _publish calls _handle_tick, which awaits
\* the gather of the strategies' on_data
update_arrives ==
    /\ Runnable("runner")
    /\ tasks["runner"].at \in {"sleep", "socket"}
    /\ tasks' = [tasks EXCEPT !["runner"] = Task("gather", "_handle_tick", "_publish")]
    /\ UNCHANGED <<nonservice, service, stream_task, registered, on_stop_calls>>

\* the gather is over: the tick yields no order, or one.  The simulated
\* router answers without suspending; the live one asks the service for
\* its client first
handler_resumes(order) ==
    /\ Runnable("runner")
    /\ tasks["runner"].at = "gather"
    /\ Resume("runner",
              IF order /\ service.wiring # "simulated"
              THEN Enter("runner", "client", "_submit_live", service)
              ELSE Ran(StreamAwait(service), service))
    /\ UNCHANGED <<nonservice, registered, on_stop_calls>>

\* cancel() was called on the stream task: CancelledError is raised in it
\* at the await it is suspended in (or before it ever ran), the lock blocks
\* it is in are left
task_cancelled ==
    /\ stream_task.cancel
    /\ stream_task.outcome = "pending"
    /\ tasks' = [tasks EXCEPT !["runner"] = Task("ended", "", "")]
    /\ stream_task' = [stream_task EXCEPT !.outcome = "cancelled"]
    /\ service' = IF service._lock = "runner" THEN Release(service) ELSE service
    /\ UNCHANGED <<nonservice, registered, on_stop_calls>>

\* `await self._stream_task` under suppress(CancelledError): the task is
\* over.  Its exception, if it died of one, is raised out of stop();
\* otherwise stop_live_stream returns and stop() starts its on_stop loop,
\* which is empty when no strategy is registered
task_awaited ==
    /\ tasks["caller"].at = "await_task"
    /\ stream_task.outcome \in {"cancelled", "raised"}
    /\ tasks' = [tasks EXCEPT !["caller"] =
                    CASE stream_task.outcome = "raised" -> Task("raised", "", "")
                      [] registered = <<>> -> Task("returned", "", "")
                      [] OTHER -> Task("on_stop", "stop", "")]
    /\ UNCHANGED <<nonservice, service, stream_task, registered, on_stop_calls>>

\* `await strategy.on_stop()` for the next registered strategy; after the
\* last one stop() returns
strategy_on_stop ==
    /\ tasks["caller"].at = "on_stop"
    /\ on_stop_calls' = Append(on_stop_calls, registered[Len(on_stop_calls) + 1])
    /\ tasks' = [tasks EXCEPT !["caller"] =
                    IF Len(on_stop_calls) + 1 = Len(registered)
                    THEN Task("returned", "", "")
                    ELSE Task("on_stop", "stop", "")]
    /\ UNCHANGED <<nonservice, service, stream_task, registered>>

LockGranted == \E t \in {"caller", "runner"} : lock_granted(t)
IoCompletes == \E t \in {"caller", "runner"} : io_completes(t)
HandlerResumes == \E order \in BOOLEAN : handler_resumes(order)

NextService ==
    \/ connect
    \/ stop_called
    \/ LockGranted
    \/ IoCompletes
    \/ io_raises
    \/ runner_starts
    \/ update_arrives
    \/ HandlerResumes
    \/ task_cancelled
    \/ task_awaited
    \/ strategy_on_stop

SpecService == InitService /\ [][NextService]_vars

\* the event loop is fair to every coroutine that is ready, and the
\* exchange answers; nothing is assumed about when the caller calls
\* connect() or stop()
FairSpecService ==
    /\ SpecService
    /\ WF_vars(LockGranted)
    /\ WF_vars(IoCompletes)
    /\ WF_vars(runner_starts)
    /\ WF_vars(update_arrives)
    /\ WF_vars(HandlerResumes)
    /\ WF_vars(task_cancelled)
    /\ WF_vars(task_awaited)
    /\ WF_vars(strategy_on_stop)

\* the stream task is inside socket_manager() and no manager exists yet
InSocketManager ==
    /\ tasks["runner"].at \in {"lock", "create"}
    /\ "socket_manager" \in {tasks["runner"].fn, tasks["runner"].from}
    /\ ~ service._socket_manager

\* C32: BinanceService.socket_manager() terminates: called when no socket
\* manager has been created yet, it eventually returns a manager, and the
\* stream awaits its first update
C32_SocketManagerReturns ==
    (service.wiring = "live" /\ InSocketManager)
        ~> (service._socket_manager /\ tasks["runner"].at = "socket")

\* stop() was called and has not ended
InStop ==
    \/ tasks["caller"].at \in {"await_task", "on_stop"}
    \/ tasks["caller"].fn = "close"

\* stop() has returned with on_stop called on every registered strategy
StopReturned ==
    /\ tasks["caller"].at = "returned"
    /\ on_stop_calls = registered

\* C33: ExecutionEngine.stop() eventually returns, in simulated and in live
\* mode, whatever the stream task is doing when it is called, and by then
\* on_stop has been called on every registered strategy
C33_StopReturns == InStop ~> StopReturned

====
